---- MODULE Spec2Model ----
(***************************************************************************)
(* A model of hisat3n-table (Rust): the per-position vote table            *)
(* (src/src/position.rs), the chunk planner TaskIter (src/src/task.rs),    *)
(* the record decoder (src/src/alignment.rs) and the orchestration in      *)
(* main (src/src/main.rs).                                                 *)
(*                                                                         *)
(* Text is modelled byte by byte: a byte is a one-character string, a      *)
(* field is a sequence of bytes, a line is the sequence of its tab         *)
(* separated fields, a file is a sequence of lines.  A pointer range into  *)
(* a memory-mapped file (Range<*const AsciiChar>) is a record naming the   *)
(* file and the first and last line it covers.  Option<T> is a sequence    *)
(* of length at most one.                                                  *)
(***************************************************************************)
EXTENDS Integers, Sequences, FiniteSets, TLC

VARIABLES
    \* ---- one Position under Position::append_base (position.rs) ----
    position,            \* the Position record
    pos_pc,              \* "ok" | "panic": whether a call has panicked
    calls,               \* number of append_base calls made so far
    \* ---- the run's inputs (main.rs: ARGS, ALIGN_FILE, REF_FILE) ----
    ARGS,                \* the parsed Arguments
    align_file,          \* the alignment file, a sequence of lines
    ref_file,            \* the reference file, a sequence of lines
    \* ---- TaskIter (task.rs) ----
    dnas,                \* TaskIter.dnas: chromosome name -> its sequence text
    align_lines,         \* TaskIter.align_lines: index of the next line to read
    current_dna,         \* TaskIter.current_dna: the cached chromosome
    peeked_align_line,   \* TaskIter.peeked_align_line: a line index
    \* ---- the locals of one TaskIter::next call ----
    align_t, dna_t, dna_l, align_count, dna_count,
    plan_pc,             \* "idle" | "loop" | "done" | "panic"
    last_break,          \* how the last pass left the loop, and on which line
    tasks,               \* the Tasks returned so far
    stderr,              \* the diagnostics the planner printed so far
    \* ---- main (main.rs): the pool, the channel and the consumer ----
    pool,                \* the pool's threads: what each is doing
    caller,              \* the thread inside TaskIter::next (0: none)
    spawn_pc,            \* the spawned thread: "running" | "ended" | "panicked"
    channel,             \* the mpsc channel: messages sent and not yet received
    main_pc,             \* the main thread: "start" | "recv" | "ok" | "err"
    output,              \* the lines written to the output file
    received,            \* the tasks whose results main received, in order
    \* ---- one Alignment under try_from or adjust_pos (alignment.rs) ----
    dec_line,            \* the record line handed to Alignment::try_from
    dec_self,            \* the Alignment (self)
    dec_pc,              \* "new" | "ok" | "err" | "panic"
    dec_ret,             \* the value adjust_pos returned
    \* ---- one call of worker, or one PositionIter (main.rs, position.rs) ----
    w_st,                \* the locals of worker: positions, the PositionIter
                         \* it, the two tallies, the diagnostics
    w_alignments,        \* the Alignments task.alignments has yielded, each
                         \* with the bases the loop has reached
    w_pc,                \* "idle" | "run" | "returned" | "panic"
    w_out                \* the positions worker returned

posVars == <<position, pos_pc, calls>>
inputVars == <<ARGS, align_file, ref_file, dnas>>
iterVars == <<align_lines, current_dna, peeked_align_line>>
localVars == <<align_t, dna_t, dna_l, align_count, dna_count>>
planVars == <<iterVars, localVars, plan_pc, last_break, tasks, stderr>>
runVars == <<pool, caller, spawn_pc, channel, main_pc, output, received>>
decVars == <<dec_line, dec_self, dec_pc, dec_ret>>
workVars == <<w_st, w_alignments, w_pc, w_out>>
unitVars == <<decVars, workVars>>
vars == <<posVars, inputVars, planVars, runVars, unitVars>>

None == <<>>
Some(x) == <<x>>
IsSome(o) == o # <<>>
Unwrap(o) == o[1]

(***************************************************************************)
(* Bounds of the model.                                                    *)
(***************************************************************************)
MaxCalls == 4            \* append_base calls on the one position
MaxId == 3               \* fragment ids are 1..MaxId

Ids == 1..MaxId
Quals == {"I", "J"}      \* quality bytes

(***************************************************************************)
(* position.rs                                                             *)
(***************************************************************************)

\* UniqueID::new
UniqueID(read_name_id, converted, quality) ==
    [read_name_id |-> read_name_id, converted |-> converted,
     quality |-> quality, removed |-> FALSE]

\* Position::new.  A quality list holds, next to each byte, the fragment id
\* whose observation pushed it (id); the code stores the byte only and
\* every comparison below reads the byte only.
NewPosition ==
    [dna |-> <<>>, location |-> -1, strand |-> None,
     converted_qualities |-> <<>>, unconverted_qualities |-> <<>>,
     unique_ids |-> <<>>]

\* An emptiness test that reads the converted quality list only
PositionEmpty_ConvertedOnly(p) == p.converted_qualities = <<>>

\* Position::empty
PositionEmpty(p) ==
    p.converted_qualities = <<>> /\ p.unconverted_qualities = <<>>

\* Vec::remove / AsciiString::remove at 0-based index i
RemoveAt(s, i) == [k \in 1..(Len(s) - 1) |-> IF k <= i THEN s[k] ELSE s[k + 1]]

\* An insertion that pushes x at the end whatever the index
InsertAt_End(s, i, x) == Append(s, x)

\* Vec::insert at 0-based index i
InsertAt(s, i, x) ==
    [k \in 1..(Len(s) + 1) |-> IF k <= i THEN s[k] ELSE IF k = i + 1 THEN x ELSE s[k - 1]]

\* A search that lost its equality test: an id that is present is never
\* found and the index of its successor is returned.
RECURSIVE search_read_name_id_noeq(_, _, _, _)
search_read_name_id_noeq(ids, read_name_id, start, end) ==
    IF ids = <<>> THEN 0
    ELSE IF start <= end THEN
        LET middle == (start + end) \div 2 IN
        IF middle >= Len(ids) THEN -1
        ELSE IF ids[middle + 1].read_name_id > read_name_id
             THEN IF middle = 0 THEN -1
                  ELSE search_read_name_id_noeq(ids, read_name_id, start, middle - 1)
        ELSE search_read_name_id_noeq(ids, read_name_id, middle + 1, end)
    ELSE start

\* Position::search_read_name_id: binary search over unique_ids with 0-based
\* usize indexes.  The result -1 stands for a panic: `middle - 1` with
\* middle = 0 overflows usize (a panic in a checked build; in an unchecked
\* build end wraps to usize::MAX and unique_ids[middle] is out of bounds), and
\* unique_ids[middle] with middle >= len is out of bounds.
RECURSIVE search_read_name_id(_, _, _, _)
search_read_name_id(ids, read_name_id, start, end) ==
    IF ids = <<>> THEN 0
    ELSE IF start <= end THEN
        LET middle == (start + end) \div 2 IN
        IF middle >= Len(ids) THEN -1
        ELSE IF ids[middle + 1].read_name_id = read_name_id THEN middle
        ELSE IF ids[middle + 1].read_name_id > read_name_id
             THEN IF middle = 0 THEN -1
                  ELSE search_read_name_id(ids, read_name_id, start, middle - 1)
        ELSE search_read_name_id(ids, read_name_id, middle + 1, end)
    ELSE start

\* The 0-based index of the first byte equal to qual among the first n bytes
\* of list, or -1.
FirstMatch(list, n, qual) ==
    LET hits == {i \in 0..(n - 1) : i < Len(list) /\ list[i + 1].qual = qual} IN
    IF hits = {} THEN -1 ELSE CHOOSE i \in hits : \A j \in hits : i <= j

\* The retraction scan of Position::append_read_name_id (lines 87-101) for an
\* entry whose stored flag is `stored`.  Both loops run i over
\* 0..converted_qualities.len(); the second one indexes
\* unconverted_qualities[i], which panics when i reaches its length.
Retract(p, stored, qual) ==
    LET n == Len(p.converted_qualities) IN
    IF stored THEN
        LET m == FirstMatch(p.converted_qualities, n, qual) IN
        [pos |-> IF m = -1 THEN p
                 ELSE [p EXCEPT !.converted_qualities = RemoveAt(@, m)],
         panic |-> FALSE]
    ELSE
        LET m == FirstMatch(p.unconverted_qualities, n, qual) IN
        IF m # -1
        THEN [pos |-> [p EXCEPT !.unconverted_qualities = RemoveAt(@, m)],
              panic |-> FALSE]
        ELSE [pos |-> p, panic |-> n > Len(p.unconverted_qualities)]

\* append_read_name_id that accepts an observation with the flag of the entry
append_read_name_id_recount(p, base, read_name_id) ==
    LET ids == p.unique_ids
        hits == {i \in 1..Len(ids) : ids[i].read_name_id = read_name_id}
    IN
    IF hits = {}
    THEN [ret |-> TRUE, panic |-> FALSE,
          pos |-> [p EXCEPT !.unique_ids =
                      Append(@, UniqueID(read_name_id, base.converted, base.qual))]]
    ELSE [ret |-> \E i \in hits : ids[i].converted = base.converted,
          panic |-> FALSE, pos |-> p]

\* Position::append_read_name_id.  base is [qual, converted]; the result is
\* the returned flag, the position afterwards and whether the call panicked.
append_read_name_id(p, base, read_name_id) ==
    LET ids == p.unique_ids
        id_count == Len(ids)
    IN
    IF id_count = 0 \/ read_name_id > ids[id_count].read_name_id THEN
        [ret |-> TRUE, panic |-> FALSE,
         pos |-> [p EXCEPT !.unique_ids =
                     Append(@, UniqueID(read_name_id, base.converted, base.qual))]]
    ELSE
        LET index == search_read_name_id(ids, read_name_id, 0, id_count) IN
        IF index = -1 \/ index >= id_count THEN
            [ret |-> FALSE, panic |-> TRUE, pos |-> p]
        ELSE IF ids[index + 1].read_name_id = read_name_id THEN
            IF ids[index + 1].removed THEN
                [ret |-> FALSE, panic |-> FALSE, pos |-> p]
            ELSE IF ids[index + 1].converted # base.converted THEN
                LET marked == [p EXCEPT !.unique_ids[index + 1].removed = TRUE]
                    r == Retract(marked, ids[index + 1].converted, base.qual)
                IN [ret |-> FALSE, panic |-> r.panic, pos |-> r.pos]
            ELSE
                [ret |-> FALSE, panic |-> FALSE, pos |-> p]
        ELSE
            [ret |-> TRUE, panic |-> FALSE,
             pos |-> [p EXCEPT !.unique_ids =
                         InsertAt(@, index, UniqueID(read_name_id, base.converted, base.qual))]]

\* Position::append_base
append_base(p, base, read_name_id) ==
    LET r == append_read_name_id(p, base, read_name_id)
        entry == [qual |-> base.qual, id |-> read_name_id]
    IN
    IF r.panic THEN r
    ELSE IF r.ret THEN
        [r EXCEPT !.pos =
            IF base.converted
            THEN [r.pos EXCEPT !.converted_qualities = Append(@, entry)]
            ELSE [r.pos EXCEPT !.unconverted_qualities = Append(@, entry)]]
    ELSE r


(***************************************************************************)
(* Text: bytes, fields, lines.                                             *)
(***************************************************************************)
Digit == <<"0", "1", "2", "3", "4", "5", "6", "7", "8", "9">>
IsDigit(c) == \E d \in 1..10 : Digit[d] = c
DigitVal(c) == (CHOOSE d \in 1..10 : Digit[d] = c) - 1

\* The decimal text of n >= 0.
RECURSIVE ToChars(_)
ToChars(n) == IF n < 10 THEN <<Digit[n + 1]>> ELSE ToChars(n \div 10) \o <<Digit[(n % 10) + 1]>>

RECURSIVE DigitsValue(_, _)
DigitsValue(chars, acc) ==
    IF chars = <<>> THEN acc
    ELSE DigitsValue(Tail(chars), acc * 10 + DigitVal(Head(chars)))

\* str::parse::<isize>/<i32>: an optional sign and one or more digits; the
\* result is an Option.
ParseInt(chars) ==
    LET signed == chars # <<>> /\ Head(chars) \in {"+", "-"}
        body == IF signed THEN Tail(chars) ELSE chars
    IN
    IF body = <<>> \/ \E i \in 1..Len(body) : ~IsDigit(body[i]) THEN None
    ELSE Some(IF signed /\ Head(chars) = "-" THEN 0 - DigitsValue(body, 0)
              ELSE DigitsValue(body, 0))

\* The bytes of a line: its fields joined by tabs.
RECURSIVE LineChars(_)
LineChars(line) ==
    IF Len(line) = 0 THEN <<>>
    ELSE IF Len(line) = 1 THEN line[1]
    ELSE line[1] \o <<"\t">> \o LineChars(Tail(line))

\* AsciiStr::len of a line
LineLen(line) == Len(LineChars(line))

\* AsciiStr::first of a line, an Option
LineFirst(line) == LET c == LineChars(line) IN IF c = <<>> THEN None ELSE Some(c[1])

\* A pointer range covering whole lines from..to of a file.
Range(file, from, to) == [file |-> file, from |-> from, to |-> to]

(***************************************************************************)
(* task.rs                                                                 *)
(***************************************************************************)

\* TaskIter::get_dna_name: the first whitespace-delimited token after '>'.
RECURSIVE Token(_)
Token(chars) ==
    IF chars = <<>> \/ Head(chars) \in {" ", "\t"} THEN <<>>
    ELSE <<Head(chars)>> \o Token(Tail(chars))

get_dna_name(info_line) == Token(Tail(LineChars(info_line)))

\* The last line of the run of non-empty, non-'>' lines that follows line k.
RECURSIVE SeqEnd(_, _)
SeqEnd(file, k) ==
    IF k + 1 > Len(file) THEN k
    ELSE IF LineFirst(file[k + 1]) = None \/ LineFirst(file[k + 1]) = Some(">") THEN k
    ELSE SeqEnd(file, k + 1)

\* TaskIter::new: the map from each chromosome name to its sequence text.  The
\* text starts at the end of the info line, before its line feed, and ends at
\* the end of the last sequence line; a later entry of the same name
\* replaces an earlier one.
NewDnas(file) ==
    LET infos == {k \in 1..Len(file) : LineFirst(file[k]) = Some(">")}
        names == {get_dna_name(file[k]) : k \in infos}
        lastOf(n) == CHOOSE k \in infos :
                        /\ get_dna_name(file[k]) = n
                        /\ \A j \in infos : get_dna_name(file[j]) = n => j <= k
    IN [n \in names |-> [info |-> lastOf(n), last |-> SeqEnd(file, lastOf(n))]]

\* dna_text.lines(): the lines of a chromosome's text as indexes into the
\* reference file.  The text begins with the info line's line feed, so the
\* first line is the empty slice at the end of the info line (index 0); an
\* empty text has no line.
DnaTextLines(text) ==
    IF text.last = text.info THEN <<>>
    ELSE <<0>> \o [i \in 1..(text.last - text.info) |-> text.info + i]

\* dna_line.len()
DnaLineLen(file, k) == IF k = 0 THEN 0 ELSE LineLen(file[k])

\* A lookup that matches on the first byte of the name only.
dnas_get_prefix(map, name) ==
    IF \E n \in DOMAIN map : n[1] = name[1]
    THEN Some(map[CHOOSE n \in DOMAIN map : n[1] = name[1]])
    ELSE None

\* self.dnas.get(align_dna) (line 221)
dnas_get(map, name) == IF name \in DOMAIN map THEN Some(map[name]) ELSE None

\* TaskIter::get_dna_location: [kind |-> "none"] for a line with fewer than
\* four fields or a position of "*", [kind |-> "panic"] when the position does
\* not parse (parse().unwrap()), else the chromosome and the position.
get_dna_location(align_line) ==
    IF Len(align_line) < 3 THEN [kind |-> "none"]
    ELSE IF Len(align_line) < 4 THEN [kind |-> "none"]
    ELSE IF align_line[4] = <<"*">> THEN [kind |-> "none"]
    ELSE LET v == ParseInt(align_line[4]) IN
         IF v = None THEN [kind |-> "panic"]
         ELSE [kind |-> "some", dna |-> align_line[3], location |-> Unwrap(v)]

\* The closure advance_dna_location_to_align_location of TaskIter::next.
RECURSIVE advance_dna_location_to_align_location(_, _, _, _, _)
advance_dna_location_to_align_location(file, align_location, dna_lines, dna_location, count) ==
    IF ~(dna_location < align_location) THEN
        [t |-> None, l |-> None, dna_lines |-> dna_lines,
         dna_location |-> dna_location, dna_count |-> count, panic |-> FALSE]
    ELSE IF dna_lines = <<>> THEN
        \* expect("alignment refer to a non-exist location to chromosome")
        [t |-> None, l |-> None, dna_lines |-> dna_lines,
         dna_location |-> dna_location, dna_count |-> count, panic |-> TRUE]
    ELSE
        LET dna_line == Head(dna_lines)
            next_dna_location == dna_location + DnaLineLen(file, dna_line)
        IN
        IF dna_location <= align_location /\ align_location < next_dna_location THEN
            [t |-> Some(Range("ref", dna_line, dna_line)), l |-> Some(dna_location),
             dna_lines |-> Tail(dna_lines), dna_location |-> next_dna_location,
             dna_count |-> count + 1, panic |-> FALSE]
        ELSE advance_dna_location_to_align_location(
                 file, align_location, Tail(dna_lines), next_dna_location, count + 1)

\* AlignmentIter::new (alignment.rs): an iterator over the lines of a text
AlignmentIterNew(text) == [lines |-> text]

\* PositionIter::new that keeps the 0-based location it is passed
PositionIterNew_ZeroBased(dna, location, seq) ==
    [dna |-> dna, location |-> location, seq |-> seq, offset |-> 0,
     last_base |-> None, last_pos |-> None]

\* PositionIter::new (position.rs): location is passed 0-based and kept 1-based
PositionIterNew(dna, location, seq) ==
    [dna |-> dna, location |-> location + 1, seq |-> seq, offset |-> 0,
     last_base |-> None, last_pos |-> None]

\* The Task built at the end of TaskIter::next (lines 373-379): the alignment
\* iterator is built over dna_t and the position iterator over align_t.
NewTask(dna, a_t, d_t, d_l) ==
    [dna |-> dna,
     alignments |-> AlignmentIterNew(d_t),
     positions |-> PositionIterNew(dna, d_l, a_t)]

\* The cache entry TaskIter.current_dna
DnaCache(name, dna_lines, peeked_dna_line, dna_location) ==
    [name |-> name, dna_lines |-> dna_lines,
     peeked_dna_line |-> peeked_dna_line, dna_location |-> dna_location]

NoBreak == [kind |-> "none", line |-> 0]

\* All of the planner's variables after a step.
PlanStep(al, cd, peek, a_t, d_t, d_l, ac, dc, pc, lb, ts, err) ==
    /\ align_lines' = al
    /\ current_dna' = cd
    /\ peeked_align_line' = peek
    /\ align_t' = a_t
    /\ dna_t' = d_t
    /\ dna_l' = d_l
    /\ align_count' = ac
    /\ dna_count' = dc
    /\ plan_pc' = pc
    /\ last_break' = lb
    /\ tasks' = ts
    /\ stderr' = err

\* A panic inside TaskIter::next while line k is being handled: the call
\* unwinds and the iterator is not polled again.
PlanPanic(reason, k) ==
    PlanStep(align_lines, current_dna, peeked_align_line, align_t, dna_t, dna_l,
             align_count, dna_count, "panic",
             [kind |-> "panic", line |-> k, reason |-> reason], tasks, stderr)

\* Leaving the loop with `break` (lines 368-379): the three asserts, then the
\* Task is returned.  k is the line that closed the chunk (0 at end of input).
PlanReturn(kind, k, al, peek, ac) ==
    IF align_t = None \/ dna_t = None \/ dna_l = None THEN PlanPanic("assert_matches", k)
    ELSE PlanStep(al, current_dna, peek, align_t, dna_t, dna_l, ac, dna_count, "idle",
                  [kind |-> kind, line |-> k],
                  Append(tasks, NewTask(Unwrap(current_dna).name,
                                        Unwrap(align_t), Unwrap(dna_t), Unwrap(dna_l))),
                  stderr)

\* Entering TaskIter::next (lines 116-123): the locals of the call.
Enter ==
    /\ plan_pc = "idle"
    /\ PlanStep(align_lines, current_dna, peeked_align_line, None, None, None, 0, 0,
                "loop", NoBreak, tasks, stderr)

\* TaskIter::next called directly.
Call ==
    /\ Enter
    /\ UNCHANGED <<posVars, inputVars, unitVars, runVars>>

\* A pass with a peeked alignment line that reports an unknown chromosome and
\* keeps the line peeked
PeekedPass_KeepsUnknown ==
    /\ plan_pc = "loop"
    /\ IsSome(peeked_align_line)
    /\ UNCHANGED <<posVars, inputVars, unitVars, runVars>>
    /\ LET k == Unwrap(peeked_align_line)
           g == get_dna_location(align_file[k])
           here == Some(Range("align", k, k))
       IN
       IF IsSome(align_t) THEN PlanPanic("assert_matches", k)
       ELSE IF g.kind = "panic" THEN PlanPanic("parse", k)
       ELSE IF g.kind = "none" THEN
           \* strange record
           PlanStep(align_lines, current_dna, None, align_t, dna_t, dna_l,
                    align_count, dna_count, "loop", NoBreak, tasks, stderr)
       ELSE IF IsSome(current_dna) THEN
           LET cd == Unwrap(current_dna) IN
           IF g.dna = cd.name THEN
               \* cache hit
               IF IsSome(cd.peeked_dna_line) THEN
                   LET dna_line == Unwrap(cd.peeked_dna_line)
                       prev_dna_location == cd.dna_location - DnaLineLen(ref_file, dna_line)
                   IN
                   IF g.location < prev_dna_location THEN PlanPanic("panic", k)
                   ELSE IF prev_dna_location <= g.location /\ g.location < cd.dna_location THEN
                       PlanStep(align_lines, Some([cd EXCEPT !.peeked_dna_line = None]), None,
                                here, Some(Range("ref", dna_line, dna_line)),
                                Some(prev_dna_location), align_count, dna_count,
                                "loop", NoBreak, tasks, stderr)
                   ELSE
                       PlanStep(align_lines, Some([cd EXCEPT !.peeked_dna_line = None]),
                                peeked_align_line, align_t, dna_t, dna_l,
                                align_count, dna_count, "loop", NoBreak, tasks, stderr)
               ELSE
                   LET a == advance_dna_location_to_align_location(
                                ref_file, g.location, cd.dna_lines, cd.dna_location, dna_count)
                   IN
                   IF a.panic THEN PlanPanic("expect", k)
                   ELSE IF a.t = None THEN PlanPanic("assert_matches", k)
                   ELSE PlanStep(align_lines,
                                 Some([cd EXCEPT !.dna_lines = a.dna_lines,
                                                 !.dna_location = a.dna_location]),
                                 None, here, a.t, a.l, align_count, a.dna_count,
                                 "loop", NoBreak, tasks, stderr)
           ELSE
               \* cache invalid
               PlanStep(align_lines, None, peeked_align_line, align_t, dna_t, dna_l,
                        align_count, dna_count, "loop", NoBreak, tasks, stderr)
       ELSE
           \* cache miss
           IF dnas_get(dnas, g.dna) = None THEN
               PlanStep(align_lines, current_dna, peeked_align_line, align_t, dna_t, dna_l,
                        align_count, dna_count, "loop", NoBreak, tasks,
                        Append(stderr, [msg |-> "no such chromosome", line |-> k]))
           ELSE
               LET a == advance_dna_location_to_align_location(
                            ref_file, g.location, DnaTextLines(Unwrap(dnas_get(dnas, g.dna))),
                            0, dna_count)
               IN
               IF a.panic THEN PlanPanic("expect", k)
               ELSE IF a.t = None THEN PlanPanic("assert_matches", k)
               ELSE PlanStep(align_lines,
                             Some(DnaCache(g.dna, a.dna_lines, None, a.dna_location)),
                             None, here, a.t, a.l, align_count, a.dna_count,
                             "loop", NoBreak, tasks, stderr)

\* One pass of the loop with a peeked alignment line (lines 147-254).
PeekedPass ==
    /\ plan_pc = "loop"
    /\ IsSome(peeked_align_line)
    /\ UNCHANGED <<posVars, inputVars, unitVars, runVars>>
    /\ LET k == Unwrap(peeked_align_line)
           g == get_dna_location(align_file[k])
           here == Some(Range("align", k, k))
       IN
       IF IsSome(align_t) THEN PlanPanic("assert_matches", k)
       ELSE IF g.kind = "panic" THEN PlanPanic("parse", k)
       ELSE IF g.kind = "none" THEN
           \* strange record
           PlanStep(align_lines, current_dna, None, align_t, dna_t, dna_l,
                    align_count, dna_count, "loop", NoBreak, tasks, stderr)
       ELSE IF IsSome(current_dna) THEN
           LET cd == Unwrap(current_dna) IN
           IF g.dna = cd.name THEN
               \* cache hit
               IF IsSome(cd.peeked_dna_line) THEN
                   LET dna_line == Unwrap(cd.peeked_dna_line)
                       prev_dna_location == cd.dna_location - DnaLineLen(ref_file, dna_line)
                   IN
                   IF g.location < prev_dna_location THEN PlanPanic("panic", k)
                   ELSE IF prev_dna_location <= g.location /\ g.location < cd.dna_location THEN
                       PlanStep(align_lines, Some([cd EXCEPT !.peeked_dna_line = None]), None,
                                here, Some(Range("ref", dna_line, dna_line)),
                                Some(prev_dna_location), align_count, dna_count,
                                "loop", NoBreak, tasks, stderr)
                   ELSE
                       PlanStep(align_lines, Some([cd EXCEPT !.peeked_dna_line = None]),
                                peeked_align_line, align_t, dna_t, dna_l,
                                align_count, dna_count, "loop", NoBreak, tasks, stderr)
               ELSE
                   LET a == advance_dna_location_to_align_location(
                                ref_file, g.location, cd.dna_lines, cd.dna_location, dna_count)
                   IN
                   IF a.panic THEN PlanPanic("expect", k)
                   ELSE IF a.t = None THEN PlanPanic("assert_matches", k)
                   ELSE PlanStep(align_lines,
                                 Some([cd EXCEPT !.dna_lines = a.dna_lines,
                                                 !.dna_location = a.dna_location]),
                                 None, here, a.t, a.l, align_count, a.dna_count,
                                 "loop", NoBreak, tasks, stderr)
           ELSE
               \* cache invalid
               PlanStep(align_lines, None, peeked_align_line, align_t, dna_t, dna_l,
                        align_count, dna_count, "loop", NoBreak, tasks, stderr)
       ELSE
           \* cache miss
           IF dnas_get(dnas, g.dna) = None THEN
               PlanStep(align_lines, current_dna, None, align_t, dna_t, dna_l,
                        align_count, dna_count, "loop", NoBreak, tasks,
                        Append(stderr, [msg |-> "no such chromosome", line |-> k]))
           ELSE
               LET a == advance_dna_location_to_align_location(
                            ref_file, g.location, DnaTextLines(Unwrap(dnas_get(dnas, g.dna))),
                            0, dna_count)
               IN
               IF a.panic THEN PlanPanic("expect", k)
               ELSE IF a.t = None THEN PlanPanic("assert_matches", k)
               ELSE PlanStep(align_lines,
                             Some(DnaCache(g.dna, a.dna_lines, None, a.dna_location)),
                             None, here, a.t, a.l, align_count, a.dna_count,
                             "loop", NoBreak, tasks, stderr)

\* One pass of the loop that reads the next alignment line (lines 256-365).
ReadPass ==
    /\ plan_pc = "loop"
    /\ peeked_align_line = None
    /\ UNCHANGED <<posVars, inputVars, unitVars, runVars>>
    /\ LET ac == align_count + 1
           k == align_lines
       IN
       IF k > Len(align_file) THEN
           \* end of the alignment file
           IF IsSome(align_t) THEN PlanReturn("eof", 0, align_lines, None, ac)
           ELSE PlanStep(align_lines, current_dna, None, align_t, dna_t, dna_l,
                         ac, dna_count, "done", [kind |-> "end", line |-> 0], tasks, stderr)
       ELSE
       LET align_line == align_file[k]
           g == get_dna_location(align_line)
           skip == PlanStep(k + 1, current_dna, None, align_t, dna_t, dna_l,
                            ac, dna_count, "loop", NoBreak, tasks, stderr)
       IN
       IF LineFirst(align_line) = None \/ LineFirst(align_line) = Some("@") THEN skip
       ELSE IF g.kind = "none" THEN skip
       ELSE IF g.kind = "panic" THEN PlanPanic("parse", k)
       ELSE IF IsSome(current_dna) THEN
           LET cd == Unwrap(current_dna) IN
           IF g.dna = cd.name THEN
               IF IsSome(cd.peeked_dna_line) THEN
                   LET dna_line == Unwrap(cd.peeked_dna_line)
                       prev_dna_location == cd.dna_location - DnaLineLen(ref_file, dna_line)
                   IN
                   IF ~(g.location < prev_dna_location) THEN PlanPanic("not sorted", k)
                   ELSE PlanStep(k + 1, Some([cd EXCEPT !.peeked_dna_line = None]), None,
                                 align_t, dna_t, dna_l, ac, dna_count,
                                 "loop", NoBreak, tasks, stderr)
               ELSE IF ~(g.location < cd.dna_location) THEN PlanPanic("not sorted", k)
               ELSE IF ac >= ARGS.align_block_size \/ dna_count >= ARGS.ref_block_size THEN
                   \* soft split
                   PlanReturn("soft", k, k + 1, Some(k), ac)
               ELSE
                   LET a == advance_dna_location_to_align_location(
                                ref_file, g.location, cd.dna_lines, cd.dna_location, dna_count)
                       cd2 == Some([cd EXCEPT !.dna_lines = a.dna_lines,
                                              !.dna_location = a.dna_location])
                   IN
                   IF a.panic THEN PlanPanic("expect", k)
                   ELSE IF IsSome(dna_t) THEN
                       IF a.t = None THEN PlanPanic("unwrap", k)
                       ELSE PlanStep(k + 1, cd2, None, align_t,
                                     Some([Unwrap(dna_t) EXCEPT !.to = Unwrap(a.t).to]),
                                     dna_l, ac, a.dna_count, "loop", NoBreak, tasks, stderr)
                   ELSE
                       PlanStep(k + 1, cd2, None, align_t, a.t, a.l, ac, a.dna_count,
                                "loop", NoBreak, tasks,
                                Append(stderr, [msg |-> "unexpected branch", line |-> k]))
           ELSE
               \* hard split
               PlanReturn("hard", k, k + 1, Some(k), ac)
       ELSE
           \* no cached chromosome: the line is peeked and handled by the next pass
           IF IsSome(align_t) THEN PlanPanic("assert_matches", k)
           ELSE PlanStep(k + 1, current_dna, Some(k), align_t, dna_t, dna_l,
                         ac, dna_count, "loop", NoBreak, tasks, stderr)

(***************************************************************************)
(* alignment.rs                                                            *)
(***************************************************************************)
UpperCase == <<"A", "B", "C", "D", "E", "F", "G", "H", "I", "J", "K", "L", "M",
               "N", "O", "P", "Q", "R", "S", "T", "U", "V", "W", "X", "Y", "Z">>
LowerCase == <<"a", "b", "c", "d", "e", "f", "g", "h", "i", "j", "k", "l", "m",
               "n", "o", "p", "q", "r", "s", "t", "u", "v", "w", "x", "y", "z">>

\* AsciiChar::is_alphabetic / is_ascii_alphabetic
IsAlpha(c) == \E i \in 1..26 : UpperCase[i] = c \/ LowerCase[i] = c

\* AsciiChar::to_ascii_uppercase
ToUpper(c) ==
    IF \E i \in 1..26 : LowerCase[i] = c
    THEN UpperCase[CHOOSE i \in 1..26 : LowerCase[i] = c]
    ELSE c

\* The byte value of a character (`name[i] as usize`).
Ord(c) ==
    IF IsDigit(c) THEN 48 + DigitVal(c)
    ELSE IF \E i \in 1..26 : UpperCase[i] = c THEN 64 + (CHOOSE i \in 1..26 : UpperCase[i] = c)
    ELSE IF \E i \in 1..26 : LowerCase[i] = c THEN 96 + (CHOOSE i \in 1..26 : LowerCase[i] = c)
    ELSE IF c = "\t" THEN 9 ELSE IF c = " " THEN 32 ELSE IF c = "*" THEN 42
    ELSE IF c = "+" THEN 43 ELSE IF c = "-" THEN 45 ELSE IF c = ":" THEN 58
    ELSE IF c = ">" THEN 62 ELSE IF c = "@" THEN 64 ELSE IF c = "^" THEN 94
    ELSE 0

\* str::parse::<usize>: an optional '+' and one or more digits
ParseUsize(chars) ==
    LET body == IF chars # <<>> /\ Head(chars) = "+" THEN Tail(chars) ELSE chars IN
    IF body = <<>> \/ \E i \in 1..Len(body) : ~IsDigit(body[i]) THEN None
    ELSE Some(DigitsValue(body, 0))

\* Alignment::hash_name: r = r * 63689 + byte over the name's bytes.  The
\* names of this model are at most two bytes long, so that no product
\* reaches the width of usize.
HashMultiplier == 63689

RECURSIVE HashFold(_, _)
HashFold(name, r) ==
    IF name = <<>> THEN r
    ELSE HashFold(Tail(name), r * HashMultiplier + Ord(Head(name)))

hash_name(name) == HashFold(name, 0)

\* usize as eight bytes, least significant first
Zero64 == [i \in 1..8 |-> 0]

\* r * 63689 + carry over the bytes of r from byte i on: the low 64 bits of
\* the result and whether it reached 2^64
RECURSIVE MulAdd64(_, _, _)
MulAdd64(r, i, carry) ==
    IF i > 8 THEN [word |-> <<>>, overflow |-> carry # 0]
    ELSE [word |-> <<(r[i] * HashMultiplier + carry) % 256>>
                   \o MulAdd64(r, i + 1, (r[i] * HashMultiplier + carry) \div 256).word,
          overflow |-> MulAdd64(r, i + 1, (r[i] * HashMultiplier + carry) \div 256).overflow]

\* One round of the loop of Alignment::hash_name at the width of usize (line
\* 132); st is [word, overflow], overflow telling whether a round overflowed.
HashRound(st, byte) ==
    [word |-> MulAdd64(st.word, 1, Ord(byte)).word,
     overflow |-> st.overflow \/ MulAdd64(st.word, 1, Ord(byte)).overflow]

\* Alignment::hash_name at the width of usize: the value an unchecked build
\* returns, and whether the arithmetic overflowed (a panic in a build with
\* overflow checks).
RECURSIVE HashFold64(_, _)
HashFold64(name, st) ==
    IF name = <<>> THEN st ELSE HashFold64(Tail(name), HashRound(st, Head(name)))

hash_name64(name) == HashFold64(name, [word |-> Zero64, overflow |-> FALSE])

\* PosQuality::new; the default quality byte is AsciiChar::Null
PosQualityNew(pos) ==
    [read_pos |-> pos, ref_pos |-> pos, qual |-> "NUL", converted |-> FALSE, remove |-> TRUE]

\* PosQuality::set_qual
set_qual(b, qual, converted) ==
    [b EXCEPT !.qual = qual, !.converted = converted, !.remove = FALSE]

\* Alignment::new
AlignmentNew ==
    [dna |-> <<>>, location |-> -1, mate_location |-> -1, flag |-> -1,
     mapped |-> FALSE, md |-> <<>>, sequence |-> <<>>, quality |-> <<>>,
     unique |-> FALSE, map_q |-> <<>>, nh |-> -1, bases |-> <<>>,
     read_name_id |-> 0, sequence_covered_length |-> 0, overlap |-> FALSE,
     paired |-> FALSE, strand |-> "NUL", cigar |-> <<>>]

\* Alignment::cigar_get_next_segment from 0-based offset start.  The length
\* is parsed from cigar_string[start .. current_index - start].  The call
\* panics when no letter follows (index out of bounds), when start exceeds
\* current_index - start (slice bounds) and when the slice is not a number.
cigar_get_next_segment(cigar_string, start) ==
    IF start = Len(cigar_string) THEN [more |-> FALSE, panic |-> FALSE]
    ELSE
        LET letters == {i \in start..(Len(cigar_string) - 1) : IsAlpha(cigar_string[i + 1])} IN
        IF letters = {} THEN [more |-> FALSE, panic |-> TRUE]
        ELSE
            LET current_index == CHOOSE i \in letters : \A j \in letters : i <= j
                slice_end == current_index - start
            IN
            IF start > slice_end THEN [more |-> FALSE, panic |-> TRUE]
            ELSE
                LET v == ParseUsize(SubSeq(cigar_string, start + 1, slice_end)) IN
                IF v = None THEN [more |-> FALSE, panic |-> TRUE]
                ELSE [more |-> TRUE, panic |-> FALSE, len |-> Unwrap(v),
                      symbol |-> cigar_string[current_index + 1],
                      start |-> current_index + 1]

\* bases[i].ref_pos += d for lo <= i < hi (0-based)
ShiftRef(bases, lo, hi, d) ==
    [i \in 1..Len(bases) |->
        IF lo <= i - 1 /\ i - 1 < hi THEN [bases[i] EXCEPT !.ref_pos = @ + d] ELSE bases[i]]

\* The loop of Alignment::adjust_pos (lines 235-278) from CIGAR offset
\* cigar_start on.  st is [bases, read_pos, return_pos, covered, panic].
RECURSIVE AdjustLoop(_, _, _)
AdjustLoop(cigar, cigar_start, st) ==
    LET seg == cigar_get_next_segment(cigar, cigar_start)
        seq_length == Len(st.bases)
    IN
    IF seg.panic THEN [st EXCEPT !.panic = TRUE]
    ELSE IF ~seg.more THEN st
    ELSE
        LET n == seg.len
            st1 == [st EXCEPT !.covered = @ + n]
        IN
        IF seg.symbol = "S" THEN
            AdjustLoop(cigar, seg.start,
                [st1 EXCEPT !.return_pos = IF st.read_pos = 0 THEN n ELSE @,
                            !.bases = IF st.read_pos = 0
                                      THEN ShiftRef(@, n, seq_length, 0 - n) ELSE @,
                            !.read_pos = @ + n])
        ELSE IF seg.symbol = "N" \/ seg.symbol = "D" THEN
            AdjustLoop(cigar, seg.start,
                [st1 EXCEPT !.bases = ShiftRef(@, st.read_pos, seq_length, n)])
        ELSE IF seg.symbol = "M" THEN
            IF st.read_pos + n > seq_length THEN [st1 EXCEPT !.panic = TRUE]
            ELSE AdjustLoop(cigar, seg.start,
                    [st1 EXCEPT !.bases = [i \in 1..seq_length |->
                                    IF st.read_pos <= i - 1 /\ i - 1 < st.read_pos + n
                                    THEN [st.bases[i] EXCEPT !.remove = FALSE]
                                    ELSE st.bases[i]],
                                !.read_pos = @ + n])
        ELSE IF seg.symbol = "I" THEN
            AdjustLoop(cigar, seg.start,
                [st1 EXCEPT !.bases = ShiftRef(@, st.read_pos + n, seq_length, 0 - n),
                            !.read_pos = @ + n])
        ELSE AdjustLoop(cigar, seg.start, st1)

\* Alignment::adjust_pos: the bases with adjusted ref_pos, the returned read
\* offset and the covered length.
adjust_pos(a) ==
    AdjustLoop(a.cigar, 0,
               [bases |-> a.bases, read_pos |-> 0, return_pos |-> 0,
                covered |-> 0, panic |-> FALSE])

\* The scan loop of Alignment::md_get_next_segment (lines 176-220).
RECURSIVE MdScan(_, _, _, _)
MdScan(md_string, current_index, seg, deletion) ==
    IF current_index >= Len(md_string) THEN
        [more |-> seg # <<>>, seg |-> seg, start |-> current_index + 1]
    ELSE
        LET c == md_string[current_index + 1] IN
        IF seg = <<>> /\ c = "0" THEN MdScan(md_string, current_index + 1, seg, deletion)
        ELSE IF IsAlpha(c) THEN
            IF seg = <<>> THEN [more |-> TRUE, seg |-> <<c>>, start |-> current_index + 1]
            ELSE IF deletion THEN MdScan(md_string, current_index + 1, Append(seg, c), deletion)
            ELSE [more |-> TRUE, seg |-> seg, start |-> current_index]
        ELSE IF c = "^" THEN
            IF seg = <<>> THEN MdScan(md_string, current_index + 1, <<c>>, TRUE)
            ELSE [more |-> TRUE, seg |-> seg, start |-> current_index]
        ELSE
            \* number
            IF seg = <<>> THEN MdScan(md_string, current_index + 1, <<c>>, deletion)
            ELSE IF deletion \/ IsAlpha(seg[Len(seg)])
                 THEN [more |-> TRUE, seg |-> seg, start |-> current_index]
            ELSE MdScan(md_string, current_index + 1, Append(seg, c), deletion)

\* Alignment::md_get_next_segment from 0-based offset start
md_get_next_segment(md_string, start) ==
    IF start >= Len(md_string) THEN [more |-> FALSE, seg |-> <<>>, start |-> start]
    ELSE MdScan(md_string, start, <<>>, FALSE)

\* `while self.bases[pos].remove { pos += 1 }`: the first base at or after pos
\* that is not marked, or -1 when the index runs off the array (a panic).
SkipRemoved(bases, pos) ==
    LET ok == {i \in pos..(Len(bases) - 1) : ~bases[i + 1].remove} IN
    IF ok = {} THEN -1 ELSE CHOOSE i \in ok : \A j \in ok : i <= j

\* MatchStep with the read base compared with the to-base of the conversion
MatchStep_ToBase(a, args, st) ==
    LET p == SkipRemoved(st.bases, st.pos) IN
    IF p = -1 THEN [st EXCEPT !.panic = TRUE]
    ELSE IF \/ a.strand = "+" /\ a.sequence[p + 1] = args.base_change[2][1]
            \/ a.strand = "-" /\ a.sequence[p + 1] = args.base_change[2][2]
    THEN IF p >= Len(a.quality) THEN [st EXCEPT !.panic = TRUE]
         ELSE [st EXCEPT !.bases[p + 1] = set_qual(@, a.quality[p + 1], FALSE),
                         !.pos = p + 1]
    ELSE [st EXCEPT !.bases[p + 1].remove = TRUE, !.pos = p + 1]

\* MismatchStep without the test of the reference base of the MD segment
MismatchStep_AnyRef(a, args, st, ch) ==
    LET p == SkipRemoved(st.bases, st.pos) IN
    IF p = -1 THEN [st EXCEPT !.panic = TRUE]
    ELSE IF \/ /\ a.strand = "+"
               /\ a.sequence[p + 1] = args.base_change[2][1]
            \/ /\ a.strand = "-"
               /\ a.sequence[p + 1] = args.base_change[2][2]
    THEN IF p >= Len(a.quality) THEN [st EXCEPT !.panic = TRUE]
         ELSE [st EXCEPT !.bases[p + 1] = set_qual(@, a.quality[p + 1], TRUE),
                         !.pos = p + 1]
    ELSE [st EXCEPT !.bases[p + 1].remove = TRUE, !.pos = p + 1]

\* One base of a match run of the MD walk (lines 305-315).  st is
\* [bases, pos, panic].
MatchStep(a, args, st) ==
    LET p == SkipRemoved(st.bases, st.pos) IN
    IF p = -1 THEN [st EXCEPT !.panic = TRUE]
    ELSE IF \/ a.strand = "+" /\ a.sequence[p + 1] = args.base_change[1][1]
            \/ a.strand = "-" /\ a.sequence[p + 1] = args.base_change[1][2]
    THEN IF p >= Len(a.quality) THEN [st EXCEPT !.panic = TRUE]
         ELSE [st EXCEPT !.bases[p + 1] = set_qual(@, a.quality[p + 1], FALSE),
                         !.pos = p + 1]
    ELSE [st EXCEPT !.bases[p + 1].remove = TRUE, !.pos = p + 1]

RECURSIVE MatchRun(_, _, _, _)
MatchRun(a, args, st, len) ==
    IF len = 0 \/ st.panic THEN st
    ELSE MatchRun(a, args, MatchStep(a, args, st), len - 1)

\* The mismatch branch of the MD walk (lines 317-333); ch is the reference
\* base of the MD segment.
MismatchStep(a, args, st, ch) ==
    LET p == SkipRemoved(st.bases, st.pos) IN
    IF p = -1 THEN [st EXCEPT !.panic = TRUE]
    ELSE IF \/ /\ a.strand = "+"
               /\ ch = args.base_change[1][1]
               /\ a.sequence[p + 1] = args.base_change[2][1]
            \/ /\ a.strand = "-"
               /\ ch = args.base_change[1][2]
               /\ a.sequence[p + 1] = args.base_change[2][2]
    THEN IF p >= Len(a.quality) THEN [st EXCEPT !.panic = TRUE]
         ELSE [st EXCEPT !.bases[p + 1] = set_qual(@, a.quality[p + 1], TRUE),
                         !.pos = p + 1]
    ELSE [st EXCEPT !.bases[p + 1].remove = TRUE, !.pos = p + 1]

\* The MD walk of Alignment::append_base (lines 297-337) from MD offset
\* md_start on.
RECURSIVE MdWalk(_, _, _, _)
MdWalk(a, args, md_start, st) ==
    LET s == md_get_next_segment(a.md, md_start) IN
    IF st.panic \/ ~s.more THEN st
    ELSE
        LET ch == s.seg[1] IN
        IF IsDigit(ch) THEN
            LET len == ParseUsize(s.seg) IN
            IF len = None THEN [st EXCEPT !.panic = TRUE]
            ELSE MdWalk(a, args, s.start, MatchRun(a, args, st, Unwrap(len)))
        ELSE IF IsAlpha(ch) THEN MdWalk(a, args, s.start, MismatchStep(a, args, st, ch))
        ELSE MdWalk(a, args, s.start, st)

MaxCovered == 500000

\* The result of Alignment::append_base from the outcome w of the MD walk
AfterWalk(a1, w) == [a |-> [a1 EXCEPT !.bases = w.bases], panic |-> w.panic]

\* Alignment::append_base from line 295 on; adj is the outcome of adjust_pos
\* and a1 the record with the covered length it returned.
WalkFrom(a1, args, adj) ==
    IF adj.panic THEN [a |-> a1, panic |-> TRUE]
    ELSE AfterWalk(a1, MdWalk(a1, args, 0, [bases |-> adj.bases, pos |-> adj.return_pos,
                                            panic |-> FALSE]))

AfterAdjust(a, args, adj) ==
    WalkFrom([a EXCEPT !.bases = adj.bases, !.sequence_covered_length = adj.covered],
             args, adj)

\* Alignment::append_base: the record with its base observations, and whether
\* the call panicked.
AlignmentAppendBase(a, args) ==
    IF ~a.mapped \/ a.sequence_covered_length > MaxCovered THEN [a |-> a, panic |-> FALSE]
    ELSE AfterAdjust(a, args,
                     adjust_pos([a EXCEPT !.bases = [i \in 1..Len(a.sequence) |->
                                                        PosQualityNew(i - 1)]]))

\* A field that starts with the two bytes of a tag name
StartsWith(field, c1, c2) == Len(field) >= 2 /\ field[1] = c1 /\ field[2] = c2

\* The loop over the optional fields of Alignment::try_from (lines 83-92).
\* st is [a, err, panic].
RECURSIVE ReadTags(_, _, _)
ReadTags(line, k, st) ==
    IF k > Len(line) \/ st.err \/ st.panic THEN st
    ELSE
        LET f == line[k] IN
        IF StartsWith(f, "M", "D") THEN
            IF Len(f) < 5 THEN [st EXCEPT !.panic = TRUE]
            ELSE ReadTags(line, k + 1, [st EXCEPT !.a.md = SubSeq(f, 6, Len(f))])
        ELSE IF StartsWith(f, "N", "M") THEN
            IF Len(f) < 5 THEN [st EXCEPT !.panic = TRUE]
            ELSE LET v == ParseInt(SubSeq(f, 6, Len(f))) IN
                 IF v = None THEN [st EXCEPT !.err = TRUE]
                 ELSE ReadTags(line, k + 1, [st EXCEPT !.a.nh = Unwrap(v)])
        ELSE IF StartsWith(f, "Y", "Z") THEN
            ReadTags(line, k + 1, [st EXCEPT !.a.strand = f[Len(f)]])
        ELSE ReadTags(line, k + 1, st)

\* The end of Alignment::try_from (lines 94-100): r is the outcome of
\* append_base.
Decoded(r) == IF r.panic THEN [kind |-> "panic"] ELSE [kind |-> "ok", a |-> r.a]

\* Alignment::try_from after the loop over the optional fields, whose outcome
\* is t.
AfterTags(t, args) ==
    IF t.panic THEN [kind |-> "panic"]
    ELSE IF t.err THEN [kind |-> "err"]
    ELSE IF (args.unique_only /\ ~t.a.unique) \/ (args.multiple_only /\ t.a.unique)
         THEN [kind |-> "ok", a |-> t.a]
    ELSE Decoded(AlignmentAppendBase(t.a, args))

\* Alignment::try_from from the parsed flag, location and mate location on
\* (lines 63-100).
FromFields(line, args, flag, location, mate_location) ==
    IF flag = None \/ location = None \/ mate_location = None THEN [kind |-> "err"]
    ELSE AfterTags(ReadTags(line, 12,
                            [a |-> [AlignmentNew EXCEPT
                                       !.read_name_id = hash_name(line[1]),
                                       !.flag = Unwrap(flag),
                                       !.dna = line[3],
                                       !.location = Unwrap(location),
                                       !.map_q = line[5],
                                       !.unique = line[5] # <<"1">>,
                                       !.cigar = line[6],
                                       !.mate_location = Unwrap(mate_location),
                                       !.sequence = line[10],
                                       !.quality = line[11]],
                             err |-> FALSE, panic |-> FALSE]),
                   args)

\* Alignment::try_from: [kind |-> "err"], [kind |-> "panic"] or
\* [kind |-> "ok", a |-> the record].  The fields mapped and paired keep the
\* values Alignment::new gave them.
try_from(line, args) ==
    IF Len(line) < 11 THEN [kind |-> "err"]
    ELSE FromFields(line, args, ParseInt(line[2]), ParseInt(line[4]), ParseInt(line[8]))

(***************************************************************************)
(* Reading the text of a Task: AlignmentIter, PositionIter, worker.        *)
(***************************************************************************)
FileOf(name) == IF name = "align" THEN align_file ELSE ref_file

\* text.lines(): the lines a pointer range covers
TextLines(text) ==
    [i \in 1..(text.to - text.from + 1) |-> FileOf(text.file)[text.from + i - 1]]

\* The bytes of a pointer range: its lines with the line feeds between them.
RECURSIVE JoinLines(_)
JoinLines(lines) ==
    IF lines = <<>> THEN <<>>
    ELSE IF Len(lines) = 1 THEN LineChars(lines[1])
    ELSE LineChars(lines[1]) \o <<"\n">> \o JoinLines(Tail(lines))

TextChars(text) == JoinLines(TextLines(text))

\* The strand PositionIter::next gives a position outside CG-only mode
\* (lines 217-221): '+' for base_change.0.0, '-' for base_change.1.0.
DefaultStrand(ch, args) ==
    IF ch = args.base_change[1][1] THEN Some("+")
    ELSE IF ch = args.base_change[2][1] THEN Some("-")
    ELSE None

\* PositionIter::next that returns the buffered position as it was buffered:
\* the '+' of a C before a G is not written to it
RECURSIVE PositionIterNext_LateStrand(_, _, _)
PositionIterNext_LateStrand(it, chars, args) ==
    IF it.offset >= Len(chars) THEN
        IF IsSome(it.last_pos)
        THEN [kind |-> "some", pos |-> Unwrap(it.last_pos),
              it |-> [it EXCEPT !.last_base = None, !.last_pos = None]]
        ELSE [kind |-> "none", it |-> it]
    ELSE
        LET c == chars[it.offset + 1] IN
        IF c \in {"\r", "\n", " "} THEN
            PositionIterNext_LateStrand([it EXCEPT !.offset = @ + 1], chars, args)
        ELSE IF c = "@" THEN [kind |-> "panic"]
        ELSE
            LET ch == ToUpper(c)
                cg == args.cg_only /\ it.last_base = Some("C") /\ ch = "G"
                p == [NewPosition EXCEPT
                         !.dna = it.dna,
                         !.location = it.location,
                         !.strand = IF args.cg_only
                                    THEN (IF cg THEN Some("-") ELSE None)
                                    ELSE DefaultStrand(ch, args)]
                ret == it.last_pos
                it2 == [it EXCEPT !.location = @ + 1, !.last_base = Some(ch),
                                  !.offset = @ + 1, !.last_pos = Some(p)]
            IN
            IF ret = None THEN PositionIterNext_LateStrand(it2, chars, args)
            ELSE [kind |-> "some", pos |-> Unwrap(ret), it |-> it2]

\* PositionIter::next over the bytes chars of its text:
\* [kind |-> "some", pos, it], [kind |-> "none", it] or [kind |-> "panic"].
RECURSIVE PositionIterNext(_, _, _)
PositionIterNext(it, chars, args) ==
    IF it.offset >= Len(chars) THEN
        IF IsSome(it.last_pos)
        THEN [kind |-> "some", pos |-> Unwrap(it.last_pos),
              it |-> [it EXCEPT !.last_base = None, !.last_pos = None]]
        ELSE [kind |-> "none", it |-> it]
    ELSE
        LET c == chars[it.offset + 1] IN
        IF c \in {"\r", "\n", " "} THEN
            PositionIterNext([it EXCEPT !.offset = @ + 1], chars, args)
        ELSE IF c = "@" THEN [kind |-> "panic"]
        ELSE
            LET ch == ToUpper(c)
                cg == args.cg_only /\ it.last_base = Some("C") /\ ch = "G"
                p == [NewPosition EXCEPT
                         !.dna = it.dna,
                         !.location = it.location,
                         !.strand = IF args.cg_only
                                    THEN (IF cg THEN Some("-") ELSE None)
                                    ELSE DefaultStrand(ch, args)]
                ret == IF cg THEN Some([Unwrap(it.last_pos) EXCEPT !.strand = Some("+")])
                       ELSE it.last_pos
                it2 == [it EXCEPT !.location = @ + 1, !.last_base = Some(ch),
                                  !.offset = @ + 1, !.last_pos = Some(p)]
            IN
            IF ret = None THEN PositionIterNext(it2, chars, args)
            ELSE [kind |-> "some", pos |-> Unwrap(ret), it |-> it2]

\* The `while positions.last().unwrap().location < ...` loop of worker (lines
\* 183-192).  st is the worker's state [positions, it, ignored, total, panic,
\* log].
RECURSIVE Grow(_, _, _, _)
Grow(st, chars, target, args) ==
    IF ~(st.positions[Len(st.positions)].location < target) THEN st
    ELSE
        LET n == PositionIterNext(st.it, chars, args) IN
        IF n.kind = "some"
        THEN Grow([st EXCEPT !.positions = Append(@, n.pos), !.it = n.it], chars, target, args)
        ELSE [st EXCEPT !.panic = TRUE]

\* The body of the loop over an alignment's bases (lines 174-208).
FoldBase(st, a, base, chars, args) ==
    IF st.panic \/ base.remove THEN st
    ELSE
        LET dna_location == st.positions[1].location
            index == a.location - dna_location + base.ref_pos
            g == Grow(st, chars, a.location + base.ref_pos, args)
        IN
        IF g.panic THEN g
        ELSE
            LET g1 == [g EXCEPT !.total = @ + 1] IN
            IF ~(0 <= index /\ index < Len(g1.positions)) THEN [g1 EXCEPT !.ignored = @ + 1]
            ELSE IF g1.positions[index + 1].strand = None THEN g1
            ELSE LET r == append_base(g1.positions[index + 1],
                                      [qual |-> base.qual, converted |-> base.converted],
                                      a.read_name_id)
                 IN [g1 EXCEPT !.positions[index + 1] = r.pos, !.panic = r.panic]

RECURSIVE FoldBases(_, _, _, _, _)
FoldBases(st, a, k, chars, args) ==
    IF k > Len(a.bases) \/ st.panic THEN st
    ELSE FoldBases(FoldBase(st, a, a.bases[k], chars, args), a, k + 1, chars, args)

\* The loop of worker over task.alignments (line 160) with
\* AlignmentIter::next inlined: a header or empty line is skipped, a line
\* that does not decode is reported and skipped, and so is a record that
\* is not mapped or has no bases.
RECURSIVE FoldLines(_, _, _, _, _)

\* The worker's state after the record line k decoded to d
FoldRecord(st, d, chars, args) ==
    IF d.kind = "panic" THEN [st EXCEPT !.panic = TRUE]
    ELSE IF d.kind = "err" THEN [st EXCEPT !.log = Append(@, "is not a valid Alignment")]
    ELSE IF ~d.a.mapped \/ d.a.bases = <<>> THEN st
    ELSE FoldBases(st, d.a, 1, chars, args)

FoldLines(st, lines, k, chars, args) ==
    IF k > Len(lines) \/ st.panic THEN st
    ELSE IF LineFirst(lines[k]) = None \/ LineFirst(lines[k]) = Some("@")
         THEN FoldLines(st, lines, k + 1, chars, args)
    ELSE FoldLines(FoldRecord(st, try_from(lines[k], args), chars, args),
                   lines, k + 1, chars, args)

\* A filter without the test for empty quality lists
EmittedWhenStranded(p) == ~(p.strand = None)

\* The filter of the positions a worker returns (line 216)
Emitted(p) == ~(PositionEmpty(p) \/ p.strand = None)

\* worker (main.rs): the positions returned for a task, the diagnostics
\* printed, and whether the call panicked.
\* The locals of worker when its loop starts (lines 147-158); first is the
\* outcome of task.positions.next(), which is unwrapped.
WorkerEnter(first) ==
    IF first.kind = "some"
    THEN [positions |-> <<first.pos>>, it |-> first.it, ignored |-> 0, total |-> 0,
          panic |-> FALSE, log |-> <<>>]
    ELSE [positions |-> <<>>, it |-> None, ignored |-> 0, total |-> 0,
          panic |-> TRUE, log |-> <<>>]

WorkerReturn(st) ==
    [panic |-> st.panic,
     positions |-> IF st.panic THEN <<>> ELSE SelectSeq(st.positions, Emitted),
     log |-> IF st.ignored # 0 THEN Append(st.log, "bases out-of-range") ELSE st.log]

\* worker from the first position on (line 158); chars is the text of
\* task.positions and first the outcome of its first next().
WorkerFrom(task, args, chars, first) ==
    IF first.kind # "some" THEN [panic |-> TRUE, positions |-> <<>>, log |-> <<>>]
    ELSE WorkerReturn(FoldLines(WorkerEnter(first),
                                TextLines(task.alignments.lines), 1, chars, args))

WorkerOn(task, args, chars) ==
    WorkerFrom(task, args, chars, PositionIterNext(task.positions, chars, args))

worker(task, args) == WorkerOn(task, args, TextChars(task.positions.seq))

(***************************************************************************)
(* Inputs.                                                                 *)
(***************************************************************************)
MaxLines == 3            \* lines of an alignment file of SpecPlan

DefaultBlockSize == 20000

\* Arguments (main.rs): base_change is ((from, complement(from)), (to,
\* complement(to))).
Arguments(abs, rbs, threads) ==
    [base_change |-> << <<"C", "G">>, <<"T", "A">> >>,
     unique_only |-> FALSE, multiple_only |-> FALSE, cg_only |-> FALSE,
     threads |-> threads, align_block_size |-> abs, ref_block_size |-> rbs]

\* A reference file with two chromosomes: c1 on two lines, c2 on one.
RefFile ==
    << << <<">", "c", "1", " ", "d">> >>,
       << <<"A", "C", "G", "T">> >>,
       << <<"A", "C", "G">> >>,
       << <<">", "c", "2">> >>,
       << <<"C", "C", "G", "G">> >> >>

\* A SAM record of a one-base read.
Record(name, flag, dna, pos) ==
    <<name, flag, dna, pos, <<"6", "0">>, <<"1", "M">>, <<"*">>, <<"0">>, <<"0">>,
      <<"C">>, <<"I">>, <<"M", "D", ":", "Z", ":", "1">>, <<"Y", "Z", ":", "A", ":", "+">> >>

\* The lines an alignment file of SpecPlan is made of: records on the two
\* chromosomes, past the end of one, on an unknown chromosome, and the lines
\* the planner skips or cannot read.
CandLines ==
    { Record(<<"r">>, <<"0">>, <<"c", "1">>, ToChars(1)),
      Record(<<"r">>, <<"0">>, <<"c", "1">>, ToChars(2)),
      Record(<<"r">>, <<"0">>, <<"c", "1">>, ToChars(5)),
      Record(<<"r">>, <<"0">>, <<"c", "1">>, ToChars(9)),
      Record(<<"r">>, <<"0">>, <<"c", "2">>, ToChars(1)),
      Record(<<"r">>, <<"0">>, <<"c", "X">>, ToChars(1)),
      Record(<<"r">>, <<"4">>, <<"*">>, <<"*">>),
      Record(<<"r">>, <<"0">>, <<"c", "1">>, <<"x">>),
      << <<"r">>, <<"0">> >>,
      << <<"@", "H", "D">> >>,
      << <<>> >> }

AlignFiles == UNION {[1..n -> CandLines] : n \in 0..MaxLines}

\* (align_block_size, ref_block_size): the defaults, and limits small enough
\* to be reached
BlockSizes ==
    { <<DefaultBlockSize, DefaultBlockSize>>, <<2, DefaultBlockSize>>,
      <<DefaultBlockSize, 2>> }

\* The state of a TaskIter after TaskIter::new, between two calls of next
PlanIdle ==
    /\ dnas = NewDnas(ref_file)
    /\ align_lines = 1
    /\ current_dna = None
    /\ peeked_align_line = None
    /\ align_t = None /\ dna_t = None /\ dna_l = None
    /\ align_count = 0 /\ dna_count = 0
    /\ plan_pc = "idle"
    /\ last_break = NoBreak
    /\ tasks = <<>>
    /\ stderr = <<>>

\* main before it spawns the thread that drives the pool
RunIdle ==
    /\ pool = [t \in 1..ARGS.threads |-> [pc |-> "pull", task |-> 0]]
    /\ caller = 0
    /\ spawn_pc = "running"
    /\ channel = <<>>
    /\ main_pc = "start"
    /\ output = <<>>
    /\ received = <<>>

PosIdle ==
    /\ position = NewPosition
    /\ pos_pc = "ok"
    /\ calls = 0

\* No Alignment is being decoded
DecIdle ==
    /\ dec_line = <<>>
    /\ dec_self = AlignmentNew
    /\ dec_pc = "new"
    /\ dec_ret = 0

\* No worker is being followed step by step
WorkIdle ==
    /\ w_st = [positions |-> <<>>, it |-> PositionIterNew(<<>>, 0, Range("ref", 1, 0)),
               ignored |-> 0, total |-> 0, panic |-> FALSE, log |-> <<>>]
    /\ w_alignments = <<>>
    /\ w_pc = "idle"
    /\ w_out = <<>>


(***************************************************************************)
(* Specification SpecPos: one Position, any sequence of append_base calls. *)
(***************************************************************************)
PosInit ==
    /\ PosIdle
    /\ ARGS = Arguments(DefaultBlockSize, DefaultBlockSize, 1)
    /\ align_file = <<>>
    /\ ref_file = <<>>
    /\ PlanIdle
    /\ RunIdle
    /\ DecIdle
    /\ WorkIdle

\* One call position.append_base(base, alignment) that returns.
AppendBase(read_name_id, converted, qual) ==
    LET r == append_base(position, [qual |-> qual, converted |-> converted], read_name_id) IN
    /\ pos_pc = "ok"
    /\ calls < MaxCalls
    /\ ~r.panic
    /\ position' = r.pos
    /\ calls' = calls + 1
    /\ UNCHANGED <<pos_pc, inputVars, unitVars, planVars, runVars>>

\* One call position.append_base(base, alignment) that panics; the thread
\* unwinds and the position is not used again.
AppendBasePanic(read_name_id, converted, qual) ==
    LET r == append_base(position, [qual |-> qual, converted |-> converted], read_name_id) IN
    /\ pos_pc = "ok"
    /\ calls < MaxCalls
    /\ r.panic
    /\ position' = r.pos
    /\ pos_pc' = "panic"
    /\ calls' = calls + 1
    /\ UNCHANGED <<inputVars, unitVars, planVars, runVars>>

PosNext ==
    \/ \E id \in Ids, c \in BOOLEAN, q \in Quals : AppendBase(id, c, q)
    \/ \E id \in Ids, c \in BOOLEAN, q \in Quals : AppendBasePanic(id, c, q)

SpecPos == PosInit /\ [][PosNext]_vars

(***************************************************************************)
(* Specification SpecPlan: TaskIter::next polled until it returns None or  *)
(* panics, over every alignment file of at most MaxLines lines.            *)
(***************************************************************************)
PlanInit ==
    /\ PosIdle
    /\ \E b \in BlockSizes : ARGS = Arguments(b[1], b[2], 1)
    /\ align_file \in AlignFiles
    /\ ref_file = RefFile
    /\ PlanIdle
    /\ RunIdle
    /\ DecIdle
    /\ WorkIdle

PlanNext == Call \/ PeekedPass \/ ReadPass

SpecPlan == PlanInit /\ [][PlanNext]_vars

(***************************************************************************)
(* main.rs: the pool threads pull Tasks from the TaskIter one at a time    *)
(* (par_bridge), run worker on each and send the result; main receives     *)
(* the results and writes the rows.                                        *)
(***************************************************************************)
\* The header line of the output file, a field per column.
Header ==
    << <<"ref">>, <<"pos">>, <<"strand">>, <<"convertedBaseQualities">>,
       <<"convertedBaseCount">>, <<"unconvertedBaseQualities">>,
       <<"unconvertedBaseCount">> >>

\* The bytes of a quality list
QualBytes(list) == [i \in 1..Len(list) |-> list[i].qual]

\* The row main writes for a position (line 243)
Row(p) ==
    <<p.dna, ToChars(p.location), <<Unwrap(p.strand)>>,
      QualBytes(p.converted_qualities), ToChars(Len(p.converted_qualities)),
      QualBytes(p.unconverted_qualities), ToChars(Len(p.unconverted_qualities))>>

Rows(positions) == [i \in 1..Len(positions) |-> Row(positions[i])]

\* main creates the output file and writes the header (lines 234-236).
MainStart ==
    /\ main_pc = "start"
    /\ main_pc' = "recv"
    /\ output' = <<Header>>
    /\ UNCHANGED <<posVars, inputVars, unitVars, planVars, pool, caller, spawn_pc, channel, received>>

\* Pool thread t takes the lock of the bridged iterator and calls
\* TaskIter::next.
Pull(t) ==
    /\ pool[t].pc = "pull"
    /\ caller = 0
    /\ Enter
    /\ caller' = t
    /\ UNCHANGED <<posVars, inputVars, unitVars, pool, spawn_pc, channel, main_pc, output, received>>

\* TaskIter::next returned Some(task) to thread t.
Take(t) ==
    /\ caller = t
    /\ plan_pc = "idle"
    /\ pool' = [pool EXCEPT ![t] = [pc |-> "work", task |-> Len(tasks)]]
    /\ caller' = 0
    /\ UNCHANGED <<posVars, inputVars, unitVars, planVars, spawn_pc, channel, main_pc, output, received>>

\* TaskIter::next returned None: the thread that called it, and every thread
\* that comes for a task afterwards, is done.
Finish(t) ==
    /\ pool[t].pc = "pull"
    /\ plan_pc = "done"
    /\ caller \in {0, t}
    /\ pool' = [pool EXCEPT ![t].pc = "finished"]
    /\ caller' = 0
    /\ UNCHANGED <<posVars, inputVars, unitVars, planVars, spawn_pc, channel, main_pc, output, received>>

\* TaskIter::next panicked: the calling thread unwinds with the lock held,
\* a thread that finds the lock poisoned leaves.
Poisoned(t) ==
    /\ pool[t].pc = "pull"
    /\ plan_pc = "panic"
    /\ pool' = [pool EXCEPT ![t].pc = IF caller = t THEN "panicked" ELSE "finished"]
    /\ UNCHANGED <<posVars, inputVars, unitVars, planVars, caller, spawn_pc, channel, main_pc,
                   output, received>>

\* Thread t runs worker on its task and sends the result (lines 227-229).
Work(t) ==
    /\ pool[t].pc = "work"
    /\ LET r == worker(tasks[pool[t].task], ARGS) IN
       IF r.panic THEN
           /\ pool' = [pool EXCEPT ![t].pc = "panicked"]
           /\ UNCHANGED channel
       ELSE
           /\ pool' = [pool EXCEPT ![t] = [pc |-> "pull", task |-> 0]]
           /\ channel' = Append(channel, [kind |-> "some", task |-> pool[t].task,
                                         positions |-> r.positions])
    /\ UNCHANGED <<posVars, inputVars, unitVars, planVars, caller, spawn_pc, main_pc, output, received>>

\* A spawned thread that sends the end marker whether or not a pool thread
\* panicked
Join_AlwaysEnds ==
    /\ spawn_pc = "running"
    /\ \A t \in DOMAIN pool : pool[t].pc \in {"finished", "panicked"}
    /\ spawn_pc' = "ended"
    /\ channel' = Append(channel, [kind |-> "none"])
    /\ UNCHANGED <<posVars, inputVars, unitVars, planVars, pool, caller, main_pc, output, received>>

\* for_each returns in the spawned thread once every pool thread is through:
\* the end marker is sent (line 231), or the panic of a pool thread is
\* resumed and the senders are dropped.
Join ==
    /\ spawn_pc = "running"
    /\ \A t \in DOMAIN pool : pool[t].pc \in {"finished", "panicked"}
    /\ IF \E t \in DOMAIN pool : pool[t].pc = "panicked"
       THEN spawn_pc' = "panicked" /\ UNCHANGED channel
       ELSE spawn_pc' = "ended" /\ channel' = Append(channel, [kind |-> "none"])
    /\ UNCHANGED <<posVars, inputVars, unitVars, planVars, pool, caller, main_pc, output, received>>

\* main receives a message (lines 239-250).
Recv ==
    /\ main_pc = "recv"
    /\ channel # <<>>
    /\ channel' = Tail(channel)
    /\ IF Head(channel).kind = "some"
       THEN /\ output' = output \o Rows(Head(channel).positions)
            /\ received' = Append(received, Head(channel).task)
            /\ UNCHANGED main_pc
       ELSE /\ main_pc' = "ok"
            /\ UNCHANGED <<output, received>>
    /\ UNCHANGED <<posVars, inputVars, unitVars, planVars, pool, caller, spawn_pc>>

\* rx.recv() fails: the channel is empty and every sender is dropped.
RecvError ==
    /\ main_pc = "recv"
    /\ channel = <<>>
    /\ spawn_pc = "panicked"
    /\ main_pc' = "err"
    /\ UNCHANGED <<posVars, inputVars, unitVars, planVars, pool, caller, spawn_pc, channel,
                   output, received>>

(***************************************************************************)
(* Specification SpecRun: whole runs of main over a set of inputs.         *)
(***************************************************************************)
MaxThreads == 2

\* The reference of the end-to-end scenarios: one chromosome holding ACGT
AcgtRef ==
    << << <<">", "c", "1">> >>,
       << <<"A", "C", "G", "T">> >> >>

\* A SAM record of a four-base read at position 1 on strand '+'
Read4(name, dna, seq, md) ==
    <<name, <<"0">>, dna, <<"1">>, <<"6", "0">>, <<"4", "M">>, <<"*">>, <<"0">>, <<"0">>,
      seq, <<"I", "J", "K", "L">>, <<"M", "D", ":", "Z", ":">> \o md,
      <<"Y", "Z", ":", "A", ":", "+">> >>

\* The read equal to the reference, and the read with T for the C
MatchRead == Read4(<<"r">>, <<"c", "1">>, <<"A", "C", "G", "T">>, <<"4">>)
ConvertedRead == Read4(<<"r">>, <<"c", "1">>, <<"A", "T", "G", "T">>, <<"1", "C", "2">>)

\* The inputs of SpecRun, as pairs of a reference and an alignment file
RunInputs ==
    { <<AcgtRef, <<MatchRead>> >>,
      <<AcgtRef, <<ConvertedRead>> >>,
      <<AcgtRef, <<MatchRead, ConvertedRead>> >>,
      <<AcgtRef, << << <<"@", "H", "D">> >>, MatchRead>> >>,
      <<AcgtRef, <<>> >>,
      <<RefFile, <<Read4(<<"c">>, <<"c", "1">>, <<"A", "C", "G", "T">>, <<"4">>),
                   Read4(<<"t">>, <<"c", "2">>, <<"C", "C", "G", "G">>, <<"4">>)>> >>,
      <<RefFile, <<Read4(<<"c">>, <<"c", "1">>, <<"A", "C", "G", "T">>, <<"4">>),
                   Read4(<<"r">>, <<"c", "X">>, <<"A", "C", "G", "T">>, <<"4">>),
                   Read4(<<"t">>, <<"c", "2">>, <<"C", "C", "G", "G">>, <<"4">>)>> >>,
      <<RefFile, <<Read4(<<"c">>, <<"c", "1">>, <<"A", "C", "G", "T">>, <<"4">>),
                   Read4(<<"r", "@">>, <<"c", "2">>, <<"C", "C", "G", "G">>, <<"4">>)>> >> }

RunInit ==
    /\ PosIdle
    /\ \E n \in 1..MaxThreads : ARGS = Arguments(DefaultBlockSize, DefaultBlockSize, n)
    /\ \E in \in RunInputs : ref_file = in[1] /\ align_file = in[2]
    /\ PlanIdle
    /\ RunIdle
    /\ DecIdle
    /\ WorkIdle

RunNext ==
    \/ MainStart
    \/ \E t \in DOMAIN pool : Pull(t)
    \/ PeekedPass
    \/ ReadPass
    \/ \E t \in DOMAIN pool : Take(t)
    \/ \E t \in DOMAIN pool : Finish(t)
    \/ \E t \in DOMAIN pool : Poisoned(t)
    \/ \E t \in DOMAIN pool : Work(t)
    \/ Join
    \/ Recv
    \/ RecvError

SpecRun == RunInit /\ [][RunNext]_vars

(***************************************************************************)
(* Properties of SpecPlan.                                                 *)
(***************************************************************************)
\* The lines of a file whose chromosome and position the planner reads.
Keyed(file) == {k \in 1..Len(file) : LineFirst(file[k]) \notin {None, Some("@")}
                                     /\ get_dna_location(file[k]).kind = "some"}

\* No line has a position field that is not an integer.
Parsable(file) == \A k \in 1..Len(file) : get_dna_location(file[k]).kind # "panic"

\* Every record names a chromosome of the reference at a position on one of
\* its sequence lines.
InRange(file) ==
    \A k \in Keyed(file) :
        LET g == get_dna_location(file[k]) IN
        /\ g.dna \in DOMAIN NewDnas(ref_file)
        /\ ~advance_dna_location_to_align_location(
                ref_file, g.location, DnaTextLines(NewDnas(ref_file)[g.dna]), 0, 0).panic
        /\ g.location > 0

\* Sorted by chromosome and coordinate: the records of a chromosome are
\* contiguous and their positions do not decrease.
Sorted(file) ==
    \A i, j \in Keyed(file) :
        (i < j /\ get_dna_location(file[i]).dna = get_dna_location(file[j]).dna) =>
            /\ get_dna_location(file[i]).location <= get_dna_location(file[j]).location
            /\ \A m \in Keyed(file) :
                  (i < m /\ m < j) =>
                      get_dna_location(file[m]).dna = get_dna_location(file[i]).dna

\* The alignment-file lines a text range covers.
AlignLinesOf(text) == IF text.file = "align" THEN text.from..text.to ELSE {}

\* The lines for which a diagnostic was printed.
Logged == {stderr[i].line : i \in 1..Len(stderr)}

\* The planner has stopped: it returned None or it panicked.
PlanStopped == plan_pc \in {"done", "panic"}

\* The tasks that carry alignment line k, in either of their two texts.
Carriers(k) ==
    {t \in 1..Len(tasks) : k \in AlignLinesOf(tasks[t].alignments.lines)
                                  \cup AlignLinesOf(tasks[t].positions.seq)}

\* The records that name a chromosome of the reference / one that is absent.
Known(file) == {k \in Keyed(file) : get_dna_location(file[k]).dna \in DOMAIN dnas}
Unknown(file) == Keyed(file) \ Known(file)

\* C3: for a sorted stream, once the planner has stopped, every alignment line
\* that was not skipped (header, empty, unmapped) and not dropped with a
\* logged diagnostic lies in the alignment byte range of exactly one emitted
\* chunk.
C3_EveryAlignmentInOneChunk ==
    (Sorted(align_file) /\ Parsable(align_file) /\ InRange(align_file) /\ PlanStopped) =>
        \A k \in Keyed(align_file) \ Logged :
            Cardinality({t \in 1..Len(tasks) :
                            k \in AlignLinesOf(tasks[t].alignments.lines)}) = 1

\* C5: whenever a chunk is closed on a size limit (soft close), the candidate
\* alignment's position lies beyond the chunk's accumulated end.
C5_SoftCloseBeyondRange ==
    last_break.kind = "soft" =>
        get_dna_location(align_file[last_break.line]).location
            >= Unwrap(current_dna).dna_location

\* A malformed alignment line: fewer than 11 fields, or a flag, position or
\* mate position that is not an integer.
Malformed(line) ==
    /\ LineFirst(line) \notin {None, Some("@")}
    /\ \/ Len(line) < 11
       \/ ParseInt(line[2]) = None
       \/ ParseInt(line[4]) = None
       \/ ParseInt(line[8]) = None

\* C9: a malformed alignment line is skipped and never aborts the run: the
\* planner does not panic on a malformed line.
C9_MalformedLineSkipped ==
    (last_break.kind = "panic" /\ last_break.line > 0) =>
        ~Malformed(align_file[last_break.line])

\* C10: an alignment naming a chromosome absent from the reference is dropped
\* with a logged warning and planning continues: the planner does not panic
\* on it, it is carried by no chunk, the known alignments before it have been
\* emitted when it is dropped, and when the planner ends every known
\* alignment, before and after it, has been emitted in exactly one chunk.
C10_UnknownChromosomeDropped ==
    /\ (last_break.kind = "panic" /\ last_break.line > 0)
           => last_break.line \notin Unknown(align_file)
    /\ \A k \in Unknown(align_file) :
          /\ Carriers(k) = {}
          /\ (k < align_lines /\ peeked_align_line # Some(k)) => k \in Logged
          /\ k \in Logged => \A i \in Known(align_file) : i < k => Cardinality(Carriers(i)) = 1
    /\ plan_pc = "done" => \A i \in Known(align_file) : Cardinality(Carriers(i)) = 1

\* C10 witness: the planner ended after dropping an unknown chromosome that
\* stood between two known alignments, and both were emitted.
C10_Witness ==
    /\ plan_pc = "done"
    /\ Len(tasks) = 2
    /\ \E i, k, j \in 1..Len(align_file) :
          /\ i < k /\ k < j
          /\ i \in Known(align_file) /\ j \in Known(align_file)
          /\ k \in Unknown(align_file) /\ k \in Logged

(***************************************************************************)
(* Properties of SpecPos.                                                  *)
(***************************************************************************)
\* The bytes of both quality lists that fragment id pushed.
Standing(p, id) ==
    Cardinality({i \in 1..Len(p.converted_qualities) : p.converted_qualities[i].id = id})
  + Cardinality({i \in 1..Len(p.unconverted_qualities) : p.unconverted_qualities[i].id = id})

\* The entry of fragment id in unique_ids, as a set (empty when absent).
Entries(p, id) ==
    {i \in 1..Len(p.unique_ids) : p.unique_ids[i].read_name_id = id}

\* C1: after any sequence of append_base calls on one position, every
\* fragment id accounts for at most one quality byte in total across
\* converted_qualities and unconverted_qualities.
C1_OneStandingVote ==
    \A id \in Ids : Standing(position, id) <= 1

\* C1 witness: a fragment voted again after its first vote (more calls than
\* entries) and a fragment still has its one standing byte.
C1_Witness ==
    /\ pos_pc = "ok"
    /\ calls > Len(position.unique_ids)
    /\ \E id \in Ids : Standing(position, id) = 1 /\ Entries(position, id) # {}

\* C2: once a fragment id was folded in with one converted flag and then with
\* the opposite flag (its entry is marked retracted), neither quality list
\* holds a byte contributed by that fragment.
C2_ConflictLeavesNoVote ==
    pos_pc = "ok" =>
        \A id \in Ids :
            (\E i \in Entries(position, id) : position.unique_ids[i].removed)
                => Standing(position, id) = 0

\* The call append_base(id, c, q) was made in this step, and returned or
\* panicked
Folded(id, c, q) == AppendBase(id, c, q) \/ AppendBasePanic(id, c, q)

\* C22: folding an observation for a fragment id that has no entry yet at the
\* position records the entry {converted flag of the observation, retracted =
\* false} and appends the quality byte to the list of that flag, whether the
\* new id is smaller than all, between two or larger than all recorded ids.
C22_NewIdRecorded ==
    [][\A id \in Ids, c \in BOOLEAN, q \in Quals :
          (Entries(position, id) = {} /\ Folded(id, c, q)) =>
              /\ pos_pc' = "ok"
              /\ Cardinality(Entries(position', id)) = 1
              /\ \A i \in Entries(position', id) :
                    position'.unique_ids[i] = UniqueID(id, c, q)
              /\ position'.converted_qualities =
                    IF c THEN Append(position.converted_qualities, [qual |-> q, id |-> id])
                    ELSE position.converted_qualities
              /\ position'.unconverted_qualities =
                    IF c THEN position.unconverted_qualities
                    ELSE Append(position.unconverted_qualities, [qual |-> q, id |-> id])]_vars

\* The entry of fragment id is retracted / has the converted flag c
Retracted(p, id) == \E i \in Entries(p, id) : p.unique_ids[i].removed
SameFlag(p, id, c) == \E i \in Entries(p, id) : p.unique_ids[i].converted = c

\* C23: folding an observation for a fragment id whose entry is already
\* retracted, or whose entry has the converted flag of the observation,
\* leaves both quality lists and all fragment entries unchanged.
C23_DuplicateChangesNothing ==
    [][\A id \in Ids, c \in BOOLEAN, q \in Quals :
          ((Retracted(position, id) \/ SameFlag(position, id, c)) /\ Folded(id, c, q)) =>
              /\ pos_pc' = "ok"
              /\ position'.converted_qualities = position.converted_qualities
              /\ position'.unconverted_qualities = position.unconverted_qualities
              /\ position'.unique_ids = position.unique_ids]_vars

\* C23 case: three calls on one fragment id left one entry, retracted: a
\* call with the flag of the entry or a call after the retraction was made
C23_Witness ==
    /\ pos_pc = "ok"
    /\ calls = 3
    /\ Len(position.unique_ids) = 1
    /\ position.unique_ids[1].removed

\* The list l after the byte at 1-based index i was removed
Without(l, i) == [k \in 1..(Len(l) - 1) |-> IF k < i THEN l[k] ELSE l[k + 1]]

\* The list after holds the list before less one byte of quality q, or the
\* list before when it has no such byte
OneRemoved(before, after, q) ==
    IF \E i \in 1..Len(before) : before[i].qual = q
    THEN \E i \in 1..Len(before) : before[i].qual = q /\ after = Without(before, i)
    ELSE after = before

\* C24: folding a conflicting observation never fails: the retraction scan
\* removes one byte equal to the observation's quality from the list that
\* held the fragment's earlier vote, or leaves both lists unchanged when no
\* such byte is there; it never reads outside that list.
C24_RetractionNeverFails ==
    [][\A id \in Ids, c \in BOOLEAN, q \in Quals :
          (/\ Entries(position, id) # {}
           /\ ~Retracted(position, id)
           /\ ~SameFlag(position, id, c)
           /\ Folded(id, c, q)) =>
              /\ pos_pc' = "ok"
              /\ IF c
                 THEN /\ OneRemoved(position.unconverted_qualities,
                                    position'.unconverted_qualities, q)
                      /\ position'.converted_qualities = position.converted_qualities
                 ELSE /\ OneRemoved(position.converted_qualities,
                                    position'.converted_qualities, q)
                      /\ position'.unconverted_qualities = position.unconverted_qualities]_vars

(***************************************************************************)
(* Properties of SpecRun.                                                  *)
(***************************************************************************)
\* main has left its receive loop: it saw the end marker, or recv failed.
MainExited == main_pc \in {"ok", "err"}

\* The rows of the chunks ts in the order the planner emitted them.
RECURSIVE PlannedRows(_, _)
PlannedRows(ts, args) ==
    IF ts = <<>> THEN <<>>
    ELSE Rows(worker(Head(ts), args).positions) \o PlannedRows(Tail(ts), args)

\* C6: the bytes of the output file at exit depend on the input alone: for
\* every thread count and every order in which the workers' results arrive,
\* the file is the header followed by the rows of the chunks in the order
\* the planner emitted them.
C6_SameOutputEveryRun ==
    MainExited => output = <<Header>> \o PlannedRows(tasks, ARGS)

\* C6 witness: with two threads the result of the second chunk was received
\* before the result of the first, and main ended on the end marker.
C6_Witness ==
    /\ main_pc = "ok"
    /\ ARGS.threads = 2
    /\ received = <<2, 1>>

\* The rows of the output file under the header.
DataRows == SubSeq(output, 2, Len(output))

\* C7: with the reference ACGT, conversion C to T and the one read equal to
\* the reference (CIGAR 4M, MD 4, strand '+'), the output holds exactly one
\* row: chromosome c1, the coordinate of the C, strand '+', no converted
\* quality byte and the one unconverted quality byte of the read's C.
C7_MatchingReadOneUnconvertedRow ==
    (ref_file = AcgtRef /\ align_file = <<MatchRead>> /\ MainExited) =>
        DataRows = << <<<<"c", "1">>, ToChars(2), <<"+">>, <<>>, ToChars(0),
                        <<"J">>, ToChars(1)>> >>

\* C8: with the same reference and conversion and the one read that has T
\* where the reference has C (CIGAR 4M, MD 1C2, strand '+'), the output
\* holds exactly one row at the coordinate of the C, with the one converted
\* quality byte of the read's T and no unconverted quality byte.
C8_ConvertedReadOneConvertedRow ==
    (ref_file = AcgtRef /\ align_file = <<ConvertedRead>> /\ MainExited) =>
        DataRows = << <<<<"c", "1">>, ToChars(2), <<"+">>, <<"J">>, ToChars(1),
                        <<>>, ToChars(0)>> >>

\* The end markers in the channel
EndMarkers == {i \in 1..Len(channel) : channel[i].kind = "none"}

\* C21: every chunk result a worker produced is received and its rows are
\* written before the consumer stops: the end marker is sent once and after
\* every chunk result, the consumer leaves its loop only on receiving it, and
\* the header was written once ahead of all rows.
C21_ResultsDrainedBeforeStop ==
    /\ Cardinality(EndMarkers) <= 1
    /\ EndMarkers # {} =>
          /\ EndMarkers = {Len(channel)}
          /\ \A t \in DOMAIN pool : pool[t].pc = "finished"
    /\ MainExited =>
          /\ main_pc = "ok"
          /\ spawn_pc = "ended"
          /\ channel = <<>>
          /\ Len(received) = Len(tasks)
    /\ main_pc # "start" =>
          /\ output[1] = Header
          /\ \A i \in 2..Len(output) : output[i] # Header

(***************************************************************************)
(* Further properties of SpecPlan.                                         *)
(***************************************************************************)
\* The number of bases on the sequence lines of a chromosome's text
RECURSIVE BasesOn(_)
BasesOn(dna_lines) ==
    IF dna_lines = <<>> THEN 0
    ELSE DnaLineLen(ref_file, Head(dna_lines)) + BasesOn(Tail(dna_lines))

\* The records of known chromosomes whose position lies past the last base
\* of the chromosome's reference sequence.
PastEnd(file) ==
    {k \in Known(file) :
        get_dna_location(file[k]).location
            > BasesOn(DnaTextLines(dnas[get_dna_location(file[k]).dna]))}

\* C11: an alignment whose position lies past the end of its chromosome's
\* reference sequence is dropped with a logged warning and planning goes on:
\* the planner does not panic on such a line, and once the line has been
\* handled it is logged and carried by no chunk.
C11_PastEndDropped ==
    /\ (last_break.kind = "panic" /\ last_break.line > 0)
           => last_break.line \notin PastEnd(align_file)
    /\ \A k \in PastEnd(align_file) :
          (k < align_lines /\ peeked_align_line # Some(k))
              => (k \in Logged /\ Carriers(k) = {})

\* C20: every emitted chunk is chromosome-homogeneous: every alignment in the
\* chunk names the chunk's chromosome, and the chunk's positions come from
\* the reference sequence of that chromosome.
C20_ChunkHomogeneous ==
    \A t \in 1..Len(tasks) :
        /\ \A k \in AlignLinesOf(tasks[t].alignments.lines) \cap Keyed(align_file) :
              get_dna_location(align_file[k]).dna = tasks[t].dna
        /\ tasks[t].dna \in DOMAIN dnas
        /\ tasks[t].positions.seq.file = "ref"
        /\ dnas[tasks[t].dna].from <= tasks[t].positions.seq.from
        /\ tasks[t].positions.seq.to <= dnas[tasks[t].dna].to

(***************************************************************************)
(* Specification SpecWorker: one call of worker (main.rs) followed base by *)
(* base.  The Task's PositionIter reads the sequence line ACGT of c1, and  *)
(* task.alignments yields Alignments that are mapped and have bases.       *)
(***************************************************************************)
MaxSteps == 4            \* Alignments and bases the worker is handed

\* The Alignments and bases handed to the worker so far
RECURSIVE BasesOf(_)
BasesOf(as) == IF as = <<>> THEN 0 ELSE Len(Head(as).bases) + BasesOf(Tail(as))

WorkSteps == Len(w_alignments) + BasesOf(w_alignments)

\* The locations of the Alignments: before the chunk, at its start
\* and past its end.
WorkLocations == {0, 1, 5}

\* The base observations of an Alignment (PosQuality values)
WorkBases ==
    { [PosQualityNew(r) EXCEPT !.qual = "I", !.converted = c, !.remove = FALSE] :
          r \in {0, 1}, c \in BOOLEAN }
    \cup { PosQualityNew(0) }

\* The bytes the Task's PositionIter reads
WorkChars == TextChars(w_st.it.seq)

\* worker up to its loop (lines 147-158): the first position is pushed.
WorkerStart(it, chars, args) ==
    WorkerEnter(PositionIterNext(it, chars, args))

WorkInit ==
    /\ PosIdle
    /\ \E cg \in BOOLEAN :
          ARGS = [Arguments(DefaultBlockSize, DefaultBlockSize, 1) EXCEPT !.cg_only = cg]
    /\ align_file = <<>>
    /\ ref_file = AcgtRef
    /\ PlanIdle
    /\ RunIdle
    /\ DecIdle
    /\ w_st = WorkerStart(PositionIterNew(<<"c", "1">>, 0, Range("ref", 2, 2)),
                          TextChars(Range("ref", 2, 2)), ARGS)
    /\ w_alignments = <<>>
    /\ w_pc = "run"
    /\ w_out = <<>>

\* task.alignments yields the next Alignment (lines 160-172).
WorkerAlignment(location, read_name_id) ==
    /\ w_pc = "run"
    /\ WorkSteps < MaxSteps
    /\ w_alignments' = Append(w_alignments,
                              [AlignmentNew EXCEPT !.mapped = TRUE,
                                                   !.dna = <<"c", "1">>,
                                                   !.location = location,
                                                   !.read_name_id = read_name_id])
    /\ UNCHANGED <<w_st, w_pc, w_out, posVars, inputVars, planVars, runVars, decVars>>

\* The loop body for the next base of the current Alignment (lines 174-208).
WorkerBase(b) ==
    /\ w_pc = "run"
    /\ w_alignments # <<>>
    /\ WorkSteps < MaxSteps
    /\ w_alignments' = [w_alignments EXCEPT ![Len(w_alignments)].bases = Append(@, b)]
    /\ w_st' = FoldBase(w_st, w_alignments[Len(w_alignments)], b, WorkChars, ARGS)
    /\ w_pc' = IF w_st'.panic THEN "panic" ELSE "run"
    /\ UNCHANGED <<w_out, posVars, inputVars, planVars, runVars, decVars>>

\* task.alignments is exhausted: the warning and the filter (lines 210-216).
WorkerDone ==
    /\ w_pc = "run"
    /\ w_st' = [w_st EXCEPT !.log = WorkerReturn(w_st).log]
    /\ w_out' = WorkerReturn(w_st).positions
    /\ w_pc' = "returned"
    /\ UNCHANGED <<w_alignments, posVars, inputVars, planVars, runVars, decVars>>

WorkNext ==
    \/ \E l \in WorkLocations, id \in 1..2 : WorkerAlignment(l, id)
    \/ \E b \in WorkBases : WorkerBase(b)
    \/ WorkerDone

SpecWorker == WorkInit /\ [][WorkNext]_vars

(***************************************************************************)
(* Properties of SpecWorker.                                               *)
(***************************************************************************)
\* The coordinates of the chunk's declared range: one per base of the text
\* the PositionIter reads, from the location it was created with.
DeclaredRange ==
    LET n == Cardinality({i \in 1..Len(WorkChars) : WorkChars[i] \notin {"\r", "\n", " "}})
    IN 1..n

\* The base observations handed to the worker, as <<alignment, base>> indexes
Observations ==
    {<<i, j>> \in (1..Len(w_alignments)) \X (1..MaxSteps) :
        j <= Len(w_alignments[i].bases)}

\* The last observation handed to the worker
LastObservation == <<Len(w_alignments), Len(w_alignments[Len(w_alignments)].bases)>>

\* The absolute coordinate of an observation: alignment.location + ref_pos
Coordinate(o) == w_alignments[o[1]].location + w_alignments[o[1]].bases[o[2]].ref_pos

\* The observations that are not excluded and lie outside the declared range
OutOfRange ==
    {o \in Observations : /\ ~w_alignments[o[1]].bases[o[2]].remove
                          /\ Coordinate(o) \notin DeclaredRange}

\* C12: every non-excluded base observation whose coordinate is outside the
\* chunk's declared range, below it or beyond it, is dropped and counted in
\* the warning tally, and the worker does not crash on it.
C12_OutOfRangeCounted ==
    /\ w_pc = "panic" => LastObservation \notin OutOfRange
    /\ w_pc \in {"run", "returned"} => w_st.ignored = Cardinality(OutOfRange)
    /\ (w_pc = "returned" /\ OutOfRange # {}) =>
           w_st.log = <<"bases out-of-range">>

\* A seeded position the claim keeps: its strand is assigned and one of its
\* quality lists is not empty
Kept(p) ==
    /\ p.strand # None
    /\ (p.converted_qualities # <<>> \/ p.unconverted_qualities # <<>>)

\* C17: the worker's result holds exactly the seeded positions that have an
\* assigned strand and at least one non-empty quality list, in their order.
C17_ResultIsKeptPositions ==
    w_pc = "returned" => w_out = SelectSeq(w_st.positions, Kept)

\* C17 case: the worker returned a position with an observation and dropped a
\* seeded position
C17_Witness ==
    /\ w_pc = "returned"
    /\ w_out # <<>>
    /\ Len(w_out) < Len(w_st.positions)
    /\ \E i \in 1..Len(w_out) : w_out[i].converted_qualities = <<>>

(***************************************************************************)
(* Specification SpecCigar: Alignment::adjust_pos on an Alignment whose    *)
(* bases were initialised as Alignment::append_base does (lines 291-293),  *)
(* over every CIGAR of at most MaxOps operators.                           *)
(***************************************************************************)
MaxOps == 2              \* operators of a CIGAR

CigarSymbols == {"S", "M", "I", "D", "N"}

\* The CIGAR strings of n operators, each with a length of 1 or 2
CigarsOf(n) ==
    {c \in [1..(2 * n) -> {"1", "2"} \cup CigarSymbols] :
        \A i \in 1..(2 * n) : IF i % 2 = 1 THEN c[i] \in {"1", "2"}
                                           ELSE c[i] \in CigarSymbols}

\* The number of read bases the CIGAR string c consumes (S, M and I)
RECURSIVE ReadLength(_)
ReadLength(c) ==
    IF c = <<>> THEN 0
    ELSE (IF c[2] \in {"S", "M", "I"} THEN DigitVal(c[1]) ELSE 0)
         + ReadLength(SubSeq(c, 3, Len(c)))

\* The CIGAR strings that consume at least one read base
Cigars == {c \in UNION {CigarsOf(n) : n \in 1..MaxOps} : ReadLength(c) >= 1}

\* self.bases as append_base leaves it before it calls adjust_pos
FreshBases(n) == [i \in 1..n |-> PosQualityNew(i - 1)]

CigarInit ==
    /\ PosIdle
    /\ ARGS = Arguments(DefaultBlockSize, DefaultBlockSize, 1)
    /\ align_file = <<>>
    /\ ref_file = <<>>
    /\ PlanIdle
    /\ RunIdle
    /\ WorkIdle
    /\ dec_line = <<>>
    /\ \E c \in Cigars :
          dec_self = [AlignmentNew EXCEPT
                         !.mapped = TRUE,
                         !.cigar = c,
                         !.sequence = [i \in 1..ReadLength(c) |-> "A"],
                         !.bases = FreshBases(ReadLength(c))]
    /\ dec_pc = "new"
    /\ dec_ret = 0

\* The outcome r of adjust_pos stored in self
Adjusted(r) ==
    /\ dec_self' = [dec_self EXCEPT !.bases = r.bases,
                                    !.sequence_covered_length = r.covered]
    /\ dec_ret' = r.return_pos
    /\ dec_pc' = IF r.panic THEN "panic" ELSE "ok"

\* One call self.adjust_pos()
AdjustPos ==
    /\ dec_pc = "new"
    /\ Adjusted(adjust_pos(dec_self))
    /\ UNCHANGED <<dec_line, workVars, posVars, inputVars, planVars, runVars>>

CigarNext == AdjustPos

SpecCigar == CigarInit /\ [][CigarNext]_vars

(***************************************************************************)
(* Properties of SpecCigar.                                                *)
(***************************************************************************)
\* The operators of a CIGAR string whose lengths are single digits, each with
\* the read offset at which it starts.
RECURSIVE CigarOps(_, _)
CigarOps(c, read_pos) ==
    IF c = <<>> THEN <<>>
    ELSE <<[len |-> DigitVal(c[1]), symbol |-> c[2], at |-> read_pos]>>
         \o CigarOps(SubSeq(c, 3, Len(c)),
                     read_pos + (IF c[2] \in {"S", "M", "I"} THEN DigitVal(c[1]) ELSE 0))

\* The shift operator op gives the base at read index i: a leading soft clip
\* and an insertion that ends at or before i shift left, a deletion or a
\* splice gap placed at or before i shifts right.
ShiftOf(op, i) ==
    IF op.symbol = "S" /\ op.at = 0 /\ op.len <= i THEN 0 - op.len
    ELSE IF op.symbol = "I" /\ op.at + op.len <= i THEN 0 - op.len
    ELSE IF op.symbol \in {"D", "N"} /\ op.at <= i THEN op.len
    ELSE 0

RECURSIVE NetShift(_, _)
NetShift(ops, i) ==
    IF ops = <<>> THEN 0 ELSE ShiftOf(Head(ops), i) + NetShift(Tail(ops), i)

\* C13: after the CIGAR walk over a well-formed CIGAR, the ref_pos of read
\* index i is i plus the net shift of the operators that precede read
\* position i: minus the leading soft clip, minus every insertion that ends
\* at or before i, plus every D or N placed before i.
C13_RefPosIsNetShift ==
    dec_pc # "new" =>
        /\ dec_pc = "ok"
        /\ \A i \in 0..(Len(dec_self.bases) - 1) :
              dec_self.bases[i + 1].ref_pos = i + NetShift(CigarOps(dec_self.cigar, 0), i)

(***************************************************************************)
(* Specification SpecAppend: Alignment::append_base on a mapped Alignment   *)
(* whose CIGAR is one match run over the whole read, or one operator longer *)
(* than the ceiling of line 286.  The records are built with mapped = TRUE, *)
(* the condition under which append_base goes on (line 286).                *)
(***************************************************************************)
MaxRead == 2             \* bases of a read

Nucleotides == {"A", "C", "G", "T"}

Qualities == <<"I", "J", "K", "L">>

\* The MD string of k matches, the reference base R and n - k - 1 matches
MdOf(k, R, n) == ToChars(k) \o <<R>> \o ToChars(n - k - 1)

\* The MD strings of a read of n bases: all matches, one mismatch, or empty
\* (a record without MD tag keeps the md of Alignment::new)
MdStrings(n) ==
    {<<>>, ToChars(n)} \cup {MdOf(k, R, n) : k \in 0..(n - 1), R \in Nucleotides}

\* A mapped Alignment of the read seq on the given strand with CIGAR 'nM'
MappedRead(strand, seq, md) ==
    [AlignmentNew EXCEPT !.mapped = TRUE,
                         !.strand = strand,
                         !.sequence = seq,
                         !.quality = SubSeq(Qualities, 1, Len(seq)),
                         !.cigar = ToChars(Len(seq)) \o <<"M">>,
                         !.md = md]

\* The CIGAR strings of a read of n bases: 'nM', a match run of one base
\* more, and a match run and a skip of MaxCovered + 1 bases
AppendCigars(n) ==
    {ToChars(n) \o <<"M">>, ToChars(n + 1) \o <<"M">>,
     ToChars(MaxCovered + 1) \o <<"M">>, ToChars(MaxCovered + 1) \o <<"N">>}

AppendInit ==
    /\ PosIdle
    /\ ARGS = Arguments(DefaultBlockSize, DefaultBlockSize, 1)
    /\ align_file = <<>>
    /\ ref_file = <<>>
    /\ PlanIdle
    /\ RunIdle
    /\ WorkIdle
    /\ dec_line = <<>>
    /\ \E n \in 1..MaxRead : \E strand \in {"+", "-"} :
       \E seq \in [1..n -> Nucleotides] : \E md \in MdStrings(n) :
       \E cigar \in AppendCigars(n) :
          dec_self = [MappedRead(strand, seq, md) EXCEPT !.cigar = cigar]
    /\ dec_pc = "new"
    /\ dec_ret = 0

\* The outcome r of append_base stored in self
Appended(r) ==
    /\ dec_self' = r.a
    /\ dec_pc' = IF r.panic THEN "panic" ELSE "ok"

\* One call self.append_base()
CallAppendBase ==
    /\ dec_pc = "new"
    /\ Appended(AlignmentAppendBase(dec_self, ARGS))
    /\ UNCHANGED <<dec_line, dec_ret, workVars, posVars, inputVars, planVars, runVars>>

AppendNext == CallAppendBase

SpecAppend == AppendInit /\ [][AppendNext]_vars

(***************************************************************************)
(* Properties of SpecAppend.                                               *)
(***************************************************************************)
ReadLen == Len(dec_self.sequence)

\* The CIGAR is one match run over the whole read
WholeMatch == dec_self.cigar = ToChars(ReadLen) \o <<"M">>

\* The read base at 0-based offset i is the from-base on strand '+' or its
\* complement on strand '-'
IsFromBase(i) ==
    \/ dec_self.strand = "+" /\ dec_self.sequence[i + 1] = ARGS.base_change[1][1]
    \/ dec_self.strand = "-" /\ dec_self.sequence[i + 1] = ARGS.base_change[1][2]

\* The read base at 0-based offset i is the to-base on strand '+' over the
\* reference base R = from-base, or the complements of both on strand '-'
IsConversion(i, R) ==
    \/ /\ dec_self.strand = "+"
       /\ R = ARGS.base_change[1][1]
       /\ dec_self.sequence[i + 1] = ARGS.base_change[2][1]
    \/ /\ dec_self.strand = "-"
       /\ R = ARGS.base_change[1][2]
       /\ dec_self.sequence[i + 1] = ARGS.base_change[2][2]

\* C14: for a mapped read of length N with CIGAR 'NM' and MD 'N' the CIGAR
\* walk excludes no base, and each base becomes an unconverted observation
\* with its own quality when it equals the from-base on strand '+' (its
\* complement on strand '-') and is excluded otherwise.
C14_AllMatchObservations ==
    (dec_pc # "new" /\ WholeMatch /\ dec_self.md = ToChars(ReadLen)) =>
        /\ dec_pc = "ok"
        /\ Len(dec_self.bases) = ReadLen
        /\ \A i \in 0..(ReadLen - 1) :
              /\ ~adjust_pos([dec_self EXCEPT !.bases = FreshBases(ReadLen)]).bases[i + 1].remove
              /\ IF IsFromBase(i)
                 THEN /\ ~dec_self.bases[i + 1].remove
                      /\ ~dec_self.bases[i + 1].converted
                      /\ dec_self.bases[i + 1].qual = dec_self.quality[i + 1]
                 ELSE dec_self.bases[i + 1].remove

\* C14 case: a read of two bases walked, one base kept and one excluded
C14_Witness ==
    /\ dec_pc = "ok"
    /\ WholeMatch
    /\ dec_self.md = ToChars(ReadLen)
    /\ ReadLen = 2
    /\ IsFromBase(0)
    /\ ~IsFromBase(1)
    /\ ~dec_self.bases[1].remove
    /\ dec_self.bases[2].remove

\* C15: for a mapped read of length N with CIGAR 'NM' and an MD of k matches,
\* a mismatch with reference base R and N - k - 1 matches, the base at offset
\* k is a converted observation exactly when strand is '+', R is the
\* from-base and the read base is the to-base, or strand is '-', R is the
\* complement of the from-base and the read base is the complement of the
\* to-base; otherwise it is excluded, and no other base is converted.
C15_MismatchConverted ==
    \A k \in 0..(ReadLen - 1) : \A R \in Nucleotides :
        (dec_pc # "new" /\ WholeMatch /\ dec_self.md = MdOf(k, R, ReadLen)) =>
            /\ dec_pc = "ok"
            /\ Len(dec_self.bases) = ReadLen
            /\ IF IsConversion(k, R)
               THEN /\ ~dec_self.bases[k + 1].remove
                    /\ dec_self.bases[k + 1].converted
               ELSE dec_self.bases[k + 1].remove
            /\ \A i \in (0..(ReadLen - 1)) \ {k} : ~dec_self.bases[i + 1].converted

\* C15 case: the second base of a read of two bases is a converted
\* observation, on strand '-'
C15_Witness ==
    /\ dec_pc = "ok"
    /\ WholeMatch
    /\ ReadLen = 2
    /\ dec_self.strand = "-"
    /\ dec_self.md = MdOf(1, "G", 2)
    /\ dec_self.bases[2].converted
    /\ ~dec_self.bases[2].remove

\* The bases the MD walk visits: none for an empty MD string; every other MD
\* string of SpecAppend covers the whole read
Visited == IF dec_self.md = <<>> THEN 0 ELSE ReadLen

\* C26: after a record is decoded, every base that the MD walk did not visit
\* is marked excluded, whatever CIGAR operator covers it.
C26_UnvisitedExcluded ==
    (dec_pc # "new" /\ WholeMatch) =>
        /\ dec_pc = "ok"
        /\ Len(dec_self.bases) = ReadLen
        /\ \A i \in Visited..(ReadLen - 1) : dec_self.bases[i + 1].remove

\* The length of the one operator of the CIGAR
CigarLength == DigitsValue(SubSeq(dec_self.cigar, 1, Len(dec_self.cigar) - 1), 0)

\* C27: when the total length implied by a record's CIGAR operators exceeds
\* 500,000 bases, no base observation is constructed for the record: its
\* observation array stays empty.
C27_CeilingLeavesNoBases ==
    (dec_pc # "new" /\ CigarLength > MaxCovered) =>
        /\ dec_pc = "ok"
        /\ dec_self.bases = <<>>

(***************************************************************************)
(* Specification SpecDecode: Alignment::try_from on one SAM record line.    *)
(***************************************************************************)
\* The flag fields of the record lines: the bits 1 (paired), 4 (unmapped) and
\* 16 (reverse strand) in every combination
DecodeFlags == {p + u + r : p \in {0, 1}, u \in {0, 4}, r \in {0, 16}}

\* The record of the read seq with the given flag: position 1 on c1, CIGAR
\* 'nM', MD 'n', strand '+'
DecodeLine(flag, seq) ==
    << <<"r">>, ToChars(flag), <<"c", "1">>, <<"1">>, <<"6", "0">>,
       ToChars(Len(seq)) \o <<"M">>, <<"*">>, <<"0">>, <<"0">>,
       seq, SubSeq(Qualities, 1, Len(seq)),
       <<"M", "D", ":", "Z", ":">> \o ToChars(Len(seq)),
       <<"Y", "Z", ":", "A", ":", "+">> >>

DecodeInit ==
    /\ PosIdle
    /\ ARGS = Arguments(DefaultBlockSize, DefaultBlockSize, 1)
    /\ align_file = <<>>
    /\ ref_file = <<>>
    /\ PlanIdle
    /\ RunIdle
    /\ WorkIdle
    /\ \E flag \in DecodeFlags : \E n \in 1..MaxRead : \E seq \in [1..n -> Nucleotides] :
          dec_line = DecodeLine(flag, seq)
    /\ dec_self = AlignmentNew
    /\ dec_pc = "new"
    /\ dec_ret = 0

\* The outcome r of try_from: Ok(a), Err(()) or a panic
TryFromReturn(r) ==
    /\ dec_self' = IF r.kind = "ok" THEN r.a ELSE dec_self
    /\ dec_pc' = r.kind

\* One call Alignment::try_from(line)
TryFrom ==
    /\ dec_pc = "new"
    /\ TryFromReturn(try_from(dec_line, ARGS))
    /\ UNCHANGED <<dec_line, dec_ret, workVars, posVars, inputVars, planVars, runVars>>

DecodeNext == TryFrom

SpecDecode == DecodeInit /\ [][DecodeNext]_vars

(***************************************************************************)
(* Properties of SpecDecode.                                               *)
(***************************************************************************)
\* Bit b (a power of two) of the flag n is set
FlagBit(n, b) == (n \div b) % 2 = 1

\* C16: for every decoded record mapped is ((flag & 4) == 0) and paired is
\* ((flag & 1) != 0), so a record whose flag has bit 4 clear goes through
\* the construction of its base observations.
C16_MappedFromFlag ==
    dec_pc = "ok" =>
        /\ dec_self.mapped = ~FlagBit(dec_self.flag, 4)
        /\ dec_self.paired = FlagBit(dec_self.flag, 1)
        /\ ~FlagBit(dec_self.flag, 4) => Len(dec_self.bases) = Len(dec_self.sequence)

(***************************************************************************)
(* Specification SpecSeed: the positions PositionIter::next yields for the  *)
(* text of a chunk.  The chromosome c1 lies on two lines of the reference   *)
(* file; a chunk's text is the first line, the second line or both.         *)
(***************************************************************************)
MaxSeq == 2              \* bases on the first line of the chromosome

SeedBytes == {"A", "C", "G", "T", "c", "g"}

\* The line ranges of the chunks' texts, as <<first line, last line>>
SeedChunks == {<<2, 2>>, <<3, 3>>, <<2, 3>>}

\* The 0-based location of the first base of reference line k
SeedLocation(k) == IF k = 2 THEN 0 ELSE Len(ref_file[2][1])

SeedInit ==
    /\ PosIdle
    /\ \E cg \in BOOLEAN :
          ARGS = [Arguments(DefaultBlockSize, DefaultBlockSize, 1) EXCEPT !.cg_only = cg]
    /\ align_file = <<>>
    /\ \E n \in 1..MaxSeq : \E l1 \in [1..n -> SeedBytes] : \E l2 \in [1..1 -> {"C", "G", "T"}] :
          ref_file = << << <<">", "c", "1">> >>, <<l1>>, <<l2>> >>
    /\ PlanIdle
    /\ RunIdle
    /\ DecIdle
    /\ \E ch \in SeedChunks :
          w_st = [positions |-> <<>>,
                  it |-> PositionIterNew(<<"c", "1">>, SeedLocation(ch[1]),
                                         Range("ref", ch[1], ch[2])),
                  ignored |-> 0, total |-> 0, panic |-> FALSE, log |-> <<>>]
    /\ w_alignments = <<>>
    /\ w_pc = "seed"
    /\ w_out = <<>>

\* The outcome n of task.positions.next(): a position is pushed (main.rs 149,
\* 184), or the iterator is exhausted
Seeded(n) ==
    /\ w_st' = IF n.kind = "some"
               THEN [w_st EXCEPT !.positions = Append(@, n.pos), !.it = n.it]
               ELSE [w_st EXCEPT !.panic = (n.kind = "panic")]
    /\ w_pc' = IF n.kind = "some" THEN "seed" ELSE IF n.kind = "none" THEN "done" ELSE "panic"

\* One call task.positions.next()
SeedPosition ==
    /\ w_pc = "seed"
    /\ Seeded(PositionIterNext(w_st.it, WorkChars, ARGS))
    /\ UNCHANGED <<w_alignments, w_out, posVars, inputVars, planVars, runVars, decVars>>

SeedNext == SeedPosition

SpecSeed == SeedInit /\ [][SeedNext]_vars

(***************************************************************************)
(* Properties of SpecSeed.                                                 *)
(***************************************************************************)
\* The reference sequence of the chromosome, upper-cased; RefBase(x) is the
\* base at the 1-based coordinate x, or "NUL" outside the chromosome
Chromosome == ref_file[2][1] \o ref_file[3][1]

RefBase(x) == IF x \in 1..Len(Chromosome) THEN ToUpper(Chromosome[x]) ELSE "NUL"

SeededPositions == {w_st.positions[i] : i \in 1..Len(w_st.positions)}

\* C18: in default mode a seeded position gets strand '+' exactly when its
\* upper-cased reference base is the from-base, strand '-' exactly when it is
\* the complement of the from-base, and no strand in every other case.
C18_DefaultStrand ==
    ~ARGS.cg_only =>
        \A p \in SeededPositions :
            p.strand = IF RefBase(p.location) = ARGS.base_change[1][1] THEN Some("+")
                       ELSE IF RefBase(p.location) = ARGS.base_change[1][2] THEN Some("-")
                       ELSE None

\* C19: in CG-only mode the position of a coordinate gets strand '+' exactly
\* when its reference base is C and the base at the next reference
\* coordinate is G, strand '-' exactly when its reference base is G and the
\* base at the previous reference coordinate is C, and no strand otherwise.
C19_CgOnlyStrand ==
    ARGS.cg_only =>
        \A p \in SeededPositions :
            p.strand = IF RefBase(p.location) = "C" /\ RefBase(p.location + 1) = "G"
                       THEN Some("+")
                       ELSE IF RefBase(p.location) = "G" /\ RefBase(p.location - 1) = "C"
                       THEN Some("-")
                       ELSE None

(***************************************************************************)
(* Specification SpecSpan: TaskIter::next polled over alignment files whose *)
(* first record is a read of one to MaxSpan bases at any position of the    *)
(* first six bases of c1 (ACGT/ACG), followed or not by a record on c2.     *)
(***************************************************************************)
MaxSpan == 3             \* bases of a read of SpecSpan

\* A SAM record of a read of n bases at position pos of chromosome dna, with
\* CIGAR 'nM' and MD 'n'
SpanRead(dna, pos, n) ==
    << <<"r">>, <<"0">>, dna, ToChars(pos), <<"6", "0">>, ToChars(n) \o <<"M">>, <<"*">>,
       <<"0">>, <<"0">>, [i \in 1..n |-> "C"], [i \in 1..n |-> "I"],
       <<"M", "D", ":", "Z", ":">> \o ToChars(n), <<"Y", "Z", ":", "A", ":", "+">> >>

SpanFiles ==
    {<<SpanRead(<<"c", "1">>, pos, n)>> \o tail :
        pos \in 1..6, n \in 1..MaxSpan,
        tail \in {<<>>, <<SpanRead(<<"c", "2">>, 1, 1)>>}}

SpanInit ==
    /\ PosIdle
    /\ \E b \in BlockSizes : ARGS = Arguments(b[1], b[2], 1)
    /\ align_file \in SpanFiles
    /\ ref_file = RefFile
    /\ PlanIdle
    /\ RunIdle
    /\ DecIdle
    /\ WorkIdle

SpecSpan == SpanInit /\ [][PlanNext]_vars

(***************************************************************************)
(* Properties of SpecSpan.                                                 *)
(***************************************************************************)
\* The reference lines a task holds, in whichever of its two texts
RefLinesOf(task) ==
    IF task.alignments.lines.file = "ref"
    THEN task.alignments.lines.from..task.alignments.lines.to
    ELSE IF task.positions.seq.file = "ref"
    THEN task.positions.seq.from..task.positions.seq.to
    ELSE {}

RECURSIVE BasesIn(_)
BasesIn(lines) ==
    IF lines = {} THEN 0
    ELSE LET k == CHOOSE i \in lines : TRUE
         IN Len(ref_file[k][1]) + BasesIn(lines \ {k})

\* The declared range of a chunk: the coordinates of the bases of its
\* reference lines, from the location its PositionIter starts with
ChunkRange(task) ==
    task.positions.location..(task.positions.location + BasesIn(RefLinesOf(task)) - 1)

\* The coordinates an alignment line covers: from its location on, one per
\* base of its sequence
Covered(line) ==
    get_dna_location(line).location..(get_dna_location(line).location + Len(line[10]) - 1)

\* C25: for every alignment placed in a chunk, every reference coordinate
\* from its location up to location + span - 1 lies inside the chunk's
\* declared range.
C25_SpanInsideRange ==
    \A t \in 1..Len(tasks) : \A k \in Keyed(align_file) :
        t \in Carriers(k) => Covered(align_file[k]) \subseteq ChunkRange(tasks[t])

(***************************************************************************)
(* Specification SpecHash: Alignment::hash_name on a read name, at the      *)
(* width of usize.  The source fixes no build profile: arithmetic that      *)
(* overflows wraps in a build without overflow checks and panics in a build *)
(* with them.                                                               *)
(***************************************************************************)
MaxName == 5             \* bytes of a read name

NameBytes == {"a", "z"}

HashInit ==
    /\ PosIdle
    /\ ARGS = Arguments(DefaultBlockSize, DefaultBlockSize, 1)
    /\ align_file = <<>>
    /\ ref_file = <<>>
    /\ PlanIdle
    /\ RunIdle
    /\ WorkIdle
    /\ \E n \in 1..MaxName : \E name \in [1..n -> NameBytes] : dec_line = <<name>>
    /\ dec_self = AlignmentNew
    /\ dec_pc = "new"
    /\ dec_ret = 0

\* hash_name returns: nothing overflowed, or the build has no overflow checks
HashName ==
    /\ dec_pc = "new"
    /\ dec_ret' = hash_name64(dec_line[1]).word
    /\ dec_pc' = "ok"
    /\ UNCHANGED <<dec_line, dec_self, workVars, posVars, inputVars, planVars, runVars>>

\* hash_name panics: the arithmetic overflowed in a build with overflow checks
HashNameOverflow ==
    /\ dec_pc = "new"
    /\ hash_name64(dec_line[1]).overflow
    /\ dec_pc' = "panic"
    /\ UNCHANGED <<dec_line, dec_self, dec_ret, workVars, posVars, inputVars, planVars, runVars>>

HashNext == HashName \/ HashNameOverflow

SpecHash == HashInit /\ [][HashNext]_vars

(***************************************************************************)
(* Properties of SpecHash.                                                 *)
(***************************************************************************)
\* The value of eight bytes below 2^31, for the words that fit
RECURSIVE WordValue(_)
WordValue(w) == IF w = <<>> THEN 0 ELSE Head(w) + 256 * WordValue(Tail(w))

\* C28: the fragment id of a read name is the fold h := (h * 63689 + byte)
\* mod 2^64 over the name's bytes from h = 0: for a name long enough for the
\* product to exceed 64 bits the computation wraps and still returns an id,
\* and the id depends on the name alone.
C28_HashWraps ==
    dec_pc # "new" =>
        /\ dec_pc = "ok"
        /\ dec_ret = hash_name64(dec_line[1]).word
        /\ Len(dec_line[1]) <= 2 => WordValue(dec_ret) = hash_name(dec_line[1])

(***************************************************************************)
(* utils.rs: CigarIterator.                                                *)
(***************************************************************************)
\* atoi_simd::parse::<usize> on a slice of digits, parsing its first digit only
AtoiUsize_FirstDigit(chars) ==
    IF chars = <<>> THEN None ELSE Some(DigitVal(chars[1]))

\* atoi_simd::parse::<usize> on the slice CigarIterator::next hands it, which
\* holds digits only: Err for the empty slice, else the decimal value (the
\* runs of this model are too short to exceed usize)
AtoiUsize(chars) ==
    IF chars = <<>> THEN None ELSE Some(DigitsValue(chars, 0))

\* The 0-based index of the first byte at or after start that is not a digit,
\* or -1
FirstNonDigit(s, start) ==
    IF \A i \in start..(Len(s) - 1) : IsDigit(s[i + 1]) THEN -1
    ELSE CHOOSE i \in start..(Len(s) - 1) :
             ~IsDigit(s[i + 1]) /\ \A j \in start..(i - 1) : IsDigit(s[j + 1])

\* CigarIterator::next from the letter at current_index, with len the outcome
\* of the parse of the digits before it (lines 102-110)
CigarItem(s, start, current_index, len) ==
    IF len = None THEN [some |-> FALSE, start |-> start]
    ELSE [some |-> TRUE, len |-> Unwrap(len), op |-> s[current_index + 1],
          start |-> current_index + 1]

\* CigarIterator::next once the scan stopped at current_index (-1: the scan
\* ran to the end of the text)
CigarScanned(s, start, current_index) ==
    IF current_index = -1 THEN [some |-> FALSE, start |-> start]
    ELSE IF IsAlpha(s[current_index + 1])
    THEN CigarItem(s, start, current_index, AtoiUsize(SubSeq(s, start + 1, current_index)))
    ELSE [some |-> FALSE, start |-> start]

\* CigarIterator::next: the item, if any, and self.start afterwards
CigarIteratorNext(s, start) ==
    IF start >= Len(s) THEN [some |-> FALSE, start |-> start]
    ELSE CigarScanned(s, start, FirstNonDigit(s, start))

(***************************************************************************)
(* Specification SpecCigarIter: a CigarIterator over a text of at most      *)
(* MaxText bytes, polled MaxPolls times.                                    *)
(***************************************************************************)
MaxText == 4             \* bytes of a CIGAR text
MaxPolls == 4            \* calls of next

CigarBytes == {"1", "2", "M", "D", "*"}

\* The iterator with the items it yielded: [start, yielded, calls]
CigarIterInit ==
    /\ PosIdle
    /\ ARGS = Arguments(DefaultBlockSize, DefaultBlockSize, 1)
    /\ align_file = <<>>
    /\ ref_file = <<>>
    /\ PlanIdle
    /\ RunIdle
    /\ WorkIdle
    /\ \E n \in 0..MaxText : \E s \in [1..n -> CigarBytes] : dec_line = <<s>>
    /\ dec_self = AlignmentNew
    /\ dec_pc = "iter"
    /\ dec_ret = [start |-> 0, yielded |-> <<>>, calls |-> 0]

\* The outcome r of a call of next
CigarPolled(r) ==
    dec_ret' = [start |-> r.start,
                yielded |-> IF r.some THEN Append(dec_ret.yielded, <<r.len, r.op>>)
                            ELSE dec_ret.yielded,
                calls |-> dec_ret.calls + 1]

\* One call of CigarIterator::next
CigarPoll ==
    /\ dec_pc = "iter"
    /\ dec_ret.calls < MaxPolls
    /\ CigarPolled(CigarIteratorNext(dec_line[1], dec_ret.start))
    /\ UNCHANGED <<dec_line, dec_self, dec_pc, workVars, posVars, inputVars, planVars, runVars>>

CigarIterNext == CigarPoll

SpecCigarIter == CigarIterInit /\ [][CigarIterNext]_vars

(***************************************************************************)
(* Properties of SpecCigarIter.                                            *)
(***************************************************************************)
\* The length of the digit run at the head of the text
RECURSIVE DigitRun(_)
DigitRun(s) == IF s = <<>> \/ ~IsDigit(Head(s)) THEN 0 ELSE 1 + DigitRun(Tail(s))

\* The pairs of a CIGAR text: one per digit run that a letter ends, up to the
\* first place where there is no digit run or no letter after it
RECURSIVE CigarPairs(_)
CigarPairs(s) ==
    LET n == DigitRun(s) IN
    IF n = 0 \/ n = Len(s) \/ ~IsAlpha(s[n + 1]) THEN <<>>
    ELSE << <<DigitsValue(SubSeq(s, 1, n), 0), s[n + 1]>> >>
         \o CigarPairs(SubSeq(s, n + 2, Len(s)))

SkipsZero_Never(seg, c) == FALSE

\* `seg.is_empty() && current_char_byte == b'0'` (line 136)
SkipsZero(seg, c) == seg = <<>> /\ c = "0"

\* The loop of utils::md_get_next_segment (lines 131-187): whether a segment
\* is returned, the segment, and state.start afterwards
RECURSIVE UtilsMdScan(_, _, _, _)
UtilsMdScan(s, current_index, seg, deletion) ==
    IF current_index >= Len(s) THEN
        [more |-> seg # <<>>, seg |-> seg, start |-> current_index + 1]
    ELSE IF SkipsZero(seg, s[current_index + 1]) THEN
        UtilsMdScan(s, current_index + 1, seg, deletion)
    ELSE IF IsAlpha(s[current_index + 1]) THEN
        IF seg = <<>>
        THEN [more |-> TRUE, seg |-> <<s[current_index + 1]>>, start |-> current_index + 1]
        ELSE IF deletion
        THEN UtilsMdScan(s, current_index + 1, Append(seg, s[current_index + 1]), deletion)
        ELSE [more |-> TRUE, seg |-> seg, start |-> current_index]
    ELSE IF s[current_index + 1] = "^" THEN
        IF seg = <<>> THEN UtilsMdScan(s, current_index + 1, <<"^">>, TRUE)
        ELSE [more |-> TRUE, seg |-> seg, start |-> current_index]
    ELSE IF IsDigit(s[current_index + 1]) THEN
        IF seg = <<>>
        THEN UtilsMdScan(s, current_index + 1, <<s[current_index + 1]>>, deletion)
        ELSE IF deletion \/ IsAlpha(seg[Len(seg)])
        THEN [more |-> TRUE, seg |-> seg, start |-> current_index]
        ELSE UtilsMdScan(s, current_index + 1, Append(seg, s[current_index + 1]), deletion)
    ELSE [more |-> seg # <<>>, seg |-> seg, start |-> current_index]

\* utils::md_get_next_segment with state.start = start
utils_md_get_next_segment(s, start) ==
    IF start >= Len(s) THEN [more |-> FALSE, seg |-> <<>>, start |-> start]
    ELSE UtilsMdScan(s, start, <<>>, FALSE)

(***************************************************************************)
(* Specification SpecMd: both MD segmenters called over a text of at most   *)
(* MaxText bytes until they return false.                                   *)
(***************************************************************************)
MdBytes == {"0", "1", "A", "c", "^", "*"}

\* A segmenter's caller: its offset, the segments returned, whether it
\* returned false
MdFresh == [start |-> 0, yielded |-> <<>>, done |-> FALSE]

MdInit ==
    /\ PosIdle
    /\ ARGS = Arguments(DefaultBlockSize, DefaultBlockSize, 1)
    /\ align_file = <<>>
    /\ ref_file = <<>>
    /\ PlanIdle
    /\ RunIdle
    /\ WorkIdle
    /\ \E n \in 0..MaxText : \E s \in [1..n -> MdBytes] : dec_line = <<s>>
    /\ dec_self = AlignmentNew
    /\ dec_pc = "md"
    /\ dec_ret = [utils |-> MdFresh, align |-> MdFresh]

\* The caller's state after a call that returned r
MdCalled(c, r) ==
    [start |-> r.start,
     yielded |-> IF r.more THEN Append(c.yielded, r.seg) ELSE c.yielded,
     done |-> ~r.more]

\* One call of utils::md_get_next_segment
MdPollUtils ==
    /\ dec_pc = "md"
    /\ ~dec_ret.utils.done
    /\ dec_ret' = [dec_ret EXCEPT !.utils =
                       MdCalled(@, utils_md_get_next_segment(dec_line[1], @.start))]
    /\ UNCHANGED <<dec_line, dec_self, dec_pc, workVars, posVars, inputVars, planVars, runVars>>

\* One call of Alignment::md_get_next_segment
MdPollAlignment ==
    /\ dec_pc = "md"
    /\ ~dec_ret.align.done
    /\ dec_ret' = [dec_ret EXCEPT !.align =
                       MdCalled(@, md_get_next_segment(dec_line[1], @.start))]
    /\ UNCHANGED <<dec_line, dec_self, dec_pc, workVars, posVars, inputVars, planVars, runVars>>

MdNext == MdPollUtils \/ MdPollAlignment

SpecMd == MdInit /\ [][MdNext]_vars

(***************************************************************************)
(* Properties of SpecMd.                                                   *)
(***************************************************************************)
\* The length of the run of letters at the head of the text
RECURSIVE LetterRun(_)
LetterRun(s) == IF s = <<>> \/ ~IsAlpha(Head(s)) THEN 0 ELSE 1 + LetterRun(Tail(s))

\* A digit run without its leading zeros
RECURSIVE DropZeros(_)
DropZeros(run) == IF run # <<>> /\ Head(run) = "0" THEN DropZeros(Tail(run)) ELSE run

\* The segments of an MD text of digits, letters and '^'
RECURSIVE MdSegments(_)
MdSegments(s) ==
    IF s = <<>> THEN <<>>
    ELSE IF IsDigit(Head(s)) THEN
        (IF DropZeros(SubSeq(s, 1, DigitRun(s))) = <<>> THEN <<>>
         ELSE <<DropZeros(SubSeq(s, 1, DigitRun(s)))>>)
        \o MdSegments(SubSeq(s, DigitRun(s) + 1, Len(s)))
    ELSE IF IsAlpha(Head(s)) THEN << <<Head(s)>> >> \o MdSegments(Tail(s))
    ELSE << SubSeq(s, 1, 1 + LetterRun(Tail(s))) >>
         \o MdSegments(SubSeq(s, 2 + LetterRun(Tail(s)), Len(s)))

MdTextValid(s) == \A i \in 1..Len(s) : IsDigit(s[i]) \/ IsAlpha(s[i]) \/ s[i] = "^"

\* The caller c has received the segments of the text in order, and all of
\* them once the segmenter returned false
MdInOrder(c, segs) ==
    /\ Len(c.yielded) <= Len(segs)
    /\ c.yielded = SubSeq(segs, 1, Len(c.yielded))
    /\ c.done => c.yielded = segs

\* C30: for every MD text of digits, letters and '^' the segmenter returns
\* in order each maximal digit run without its leading zeros (nothing for a
\* run of zeros), each mismatch letter as a one-byte segment and each '^'
\* with the letters after it as one deletion segment; nothing else of the
\* text is skipped and nothing is returned twice.
C30_MdSegmentsInOrder ==
    (dec_pc = "md" /\ MdTextValid(dec_line[1])) =>
        /\ MdInOrder(dec_ret.utils, MdSegments(dec_line[1]))
        /\ MdInOrder(dec_ret.align, MdSegments(dec_line[1]))

\* C30 case: a digit run with a leading zero and a deletion, returned by
\* both segmenters, which then returned false
C30_Witness ==
    /\ dec_pc = "md"
    /\ dec_line = << <<"0", "1", "^", "A">> >>
    /\ dec_ret.utils.done
    /\ dec_ret.align.done
    /\ dec_ret.utils.yielded = << <<"1">>, <<"^", "A">> >>

\* The text up to its first byte that is not a digit, a letter or '^'
RECURSIVE MdValidPrefix(_)
MdValidPrefix(s) ==
    IF s = <<>> \/ ~MdTextValid(<<Head(s)>>) THEN <<>>
    ELSE <<Head(s)>> \o MdValidPrefix(Tail(s))

\* C31: when an MD text holds a byte that is not a digit, a letter or '^',
\* both segmenters return the segments of the text before that byte and
\* nothing for that byte or for what follows it.
C31_InvalidByteStops ==
    (dec_pc = "md" /\ ~MdTextValid(dec_line[1])) =>
        /\ MdInOrder(dec_ret.utils, MdSegments(MdValidPrefix(dec_line[1])))
        /\ MdInOrder(dec_ret.align, MdSegments(MdValidPrefix(dec_line[1])))

(***************************************************************************)
(* Further properties of SpecPos.                                          *)
(***************************************************************************)
\* unique_ids is sorted strictly ascending by read_name_id
StrictlyAscending(ids) ==
    \A i \in 1..(Len(ids) - 1) : ids[i].read_name_id < ids[i + 1].read_name_id

\* Every entry of before is in after with its converted flag, and retracted
\* there when it was retracted before
EntriesKept(before, after) ==
    \A i \in 1..Len(before) : \E j \in 1..Len(after) :
        /\ after[j].read_name_id = before[i].read_name_id
        /\ after[j].converted = before[i].converted
        /\ before[i].removed => after[j].removed

\* C32: after any sequence of append_base calls unique_ids is sorted strictly
\* ascending by read_name_id, no entry is deleted, no entry's converted flag
\* changes and a retracted flag that is set is never cleared.
C32_EntriesSortedAndKept ==
    [][/\ StrictlyAscending(position'.unique_ids)
       /\ EntriesKept(position.unique_ids, position'.unique_ids)]_vars

\* C32 case: three entries, one of them inserted between two others after
\* both had voted, and one of them retracted
C32_Witness ==
    /\ pos_pc = "ok"
    /\ Len(position.unique_ids) = 3
    /\ \E i \in 1..3 : position.unique_ids[i].removed
    /\ \E i, j \in 1..Len(position.converted_qualities) :
          /\ i < j
          /\ position.converted_qualities[i].id > position.converted_qualities[j].id

(***************************************************************************)
(* Specification SpecSeedWork: the positions of a chunk, pulled from        *)
(* PositionIter one call after the other (SpecSeed) or by the worker as its *)
(* base observations need them (SpecWorker).                                *)
(***************************************************************************)
SeedWorkInit == SeedInit \/ WorkInit

SeedWorkNext == SeedNext \/ WorkNext

SpecSeedWork == SeedWorkInit /\ [][SeedWorkNext]_vars

(***************************************************************************)
(* Properties of SpecSeedWork.                                             *)
(***************************************************************************)
\* The bytes of a text that are not CR, LF or space, in text order
RECURSIVE NonBlank(_)
NonBlank(chars) ==
    IF chars = <<>> THEN <<>>
    ELSE IF Head(chars) \in {"\r", "\n", " "} THEN NonBlank(Tail(chars))
    ELSE <<Head(chars)>> \o NonBlank(Tail(chars))

\* The 1-based coordinate of the first base of the text the PositionIter reads
FirstCoordinate == SeedLocation(w_st.it.seq.from) + 1

\* The PositionIter returned None
PositionsExhausted == w_pc = "done"

\* C33: PositionIter yields one Position per non-blank byte of its text, in
\* text order, with coordinates rising by 1 from the start location + 1, the
\* last buffered position included when the text ends; in the worker
\* positions[k].location = positions[0].location + k at every step, and
\* index = align_location - dna_location + ref_pos addresses the position
\* whose coordinate is align_location + ref_pos.
C33_OnePositionPerBase ==
    (w_pc \in {"seed", "done", "run", "panic", "returned"} /\ w_st.it # None) =>
        /\ Len(w_st.positions) <= Len(NonBlank(WorkChars))
        /\ PositionsExhausted => Len(w_st.positions) = Len(NonBlank(WorkChars))
        /\ \A k \in 1..Len(w_st.positions) :
              /\ w_st.positions[k].location = FirstCoordinate + (k - 1)
              /\ w_st.positions[k].location = w_st.positions[1].location + (k - 1)
              /\ ~ARGS.cg_only =>
                    w_st.positions[k].strand =
                        DefaultStrand(ToUpper(NonBlank(WorkChars)[k]), ARGS)
        /\ \A a \in 1..Len(w_alignments) : \A b \in 1..Len(w_alignments[a].bases) :
              \A index \in 0..(Len(w_st.positions) - 1) :
                  index = w_alignments[a].location - w_st.positions[1].location
                              + w_alignments[a].bases[b].ref_pos
                      => w_st.positions[index + 1].location =
                             w_alignments[a].location + w_alignments[a].bases[b].ref_pos

\* C33 case: the PositionIter read a text of two lines to its end and
\* yielded its three positions, the buffered last one included
C33_Witness ==
    /\ w_pc = "done"
    /\ Len(WorkChars) = 4
    /\ Len(w_st.positions) = 3
    /\ w_st.positions[3].location = 3

\* C33 case in the worker: an observation at ref_pos 1 of an Alignment at
\* location 1 made the worker pull the position of coordinate 2
C33_WitnessWorker ==
    /\ w_pc = "run"
    /\ Len(w_st.positions) = 2
    /\ \E a \in 1..Len(w_alignments) : \E b \in 1..Len(w_alignments[a].bases) :
          /\ w_alignments[a].location = 1
          /\ w_alignments[a].bases[b].ref_pos = 1
          /\ ~w_alignments[a].bases[b].remove

\* The non-blank byte, upper-cased, under the k-th position of the text, or
\* "NUL" past its end
SeedBase(k) ==
    IF k \in 1..Len(NonBlank(WorkChars)) THEN ToUpper(NonBlank(WorkChars)[k]) ELSE "NUL"

\* C34: every Position has its final strand when PositionIter yields it: no
\* later call changes the strand of a position that was yielded, and in
\* CG-only mode a cytosine that a guanine follows in the text carries its '+'
\* when it is yielded.
C34_StrandFinalWhenYielded ==
    [][(w_pc \in {"seed", "run"} /\ w_st'.it # None) =>
          /\ \A k \in 1..Len(w_st.positions) :
                w_st'.positions[k].strand = w_st.positions[k].strand
          /\ ARGS.cg_only =>
                \A k \in 1..Len(w_st'.positions) :
                    (SeedBase(k) = "C" /\ SeedBase(k + 1) = "G")
                        => w_st'.positions[k].strand = Some("+")]_vars

\* C34 case: in CG-only mode the position of a cytosine was yielded with its
\* '+' while the guanine after it is still buffered
C34_Witness ==
    /\ ARGS.cg_only
    /\ w_pc = "seed"
    /\ Len(w_st.positions) = 1
    /\ w_st.positions[1].strand = Some("+")
    /\ IsSome(w_st.it.last_pos)

(***************************************************************************)
(* Termination of TaskIter::next (SpecPlan).                               *)
(***************************************************************************)
\* What a call of TaskIter::next has left to do: three for each alignment
\* line not read yet, two for a peeked line under a cached chromosome, one
\* for a peeked line without one
PassesLeft(al, cd, peek, file) ==
    3 * (Len(file) + 1 - al)
        + (IF IsSome(peek) THEN (IF IsSome(cd) THEN 2 ELSE 1) ELSE 0)

\* C35: for every finite alignment input each call of TaskIter::next
\* finishes: every pass of its loop ends the call, consumes one input line,
\* clears the peeked alignment line, or drops the chromosome cache, and the
\* pass after a dropped cache clears the peeked line (or ends the call); so
\* what is left to do shrinks with every pass.  Once the input is exhausted
\* and no chunk is pending, next returns end-of-stream.
C35_NextTerminates ==
    [][plan_pc = "loop" =>
          /\ \/ plan_pc' # "loop"
             \/ align_lines' = align_lines + 1
             \/ IsSome(peeked_align_line) /\ peeked_align_line' = None
             \/ /\ IsSome(peeked_align_line)
                /\ peeked_align_line' = peeked_align_line
                /\ IsSome(current_dna)
                /\ current_dna' = None
          /\ (IsSome(peeked_align_line) /\ current_dna = None /\ plan_pc' = "loop")
                => peeked_align_line' = None
          /\ plan_pc' = "loop" =>
                PassesLeft(align_lines', current_dna', peeked_align_line', align_file)
                    < PassesLeft(align_lines, current_dna, peeked_align_line, align_file)
          /\ (align_lines > Len(align_file) /\ peeked_align_line = None /\ align_t = None)
                => plan_pc' = "done"]_vars

\* C35 case: the planner returned two chunks of different chromosomes (the
\* second one begun from a peeked line after the cache was dropped) and then
\* end-of-stream
C35_Witness ==
    /\ plan_pc = "done"
    /\ Len(tasks) = 2
    /\ tasks[1].dna # tasks[2].dna

(***************************************************************************)
(* Specification SpecRunFair: SpecRun with every thread scheduled: the main *)
(* thread, the spawned thread and the pool's threads each take a step that  *)
(* stays possible for them.                                                 *)
(***************************************************************************)
MainSteps == MainStart \/ Recv \/ RecvError

\* The steps of the pool's threads up to the call of worker
PoolSteps ==
    \/ \E t \in DOMAIN pool : Pull(t)
    \/ PeekedPass
    \/ ReadPass
    \/ \E t \in DOMAIN pool : Take(t)
    \/ \E t \in DOMAIN pool : Finish(t)
    \/ \E t \in DOMAIN pool : Poisoned(t)

\* Weak fairness of the threads' calls of worker, written out: Work(t) is
\* enabled exactly when pool[t].pc = "work" (worker returns or panicks on
\* every task, and either way the thread leaves "work")
WorkFair ==
    \/ []<>(\A t \in DOMAIN pool : pool[t].pc # "work")
    \/ []<><<\E t \in DOMAIN pool : Work(t)>>_vars

SpecRunFair ==
    /\ RunInit
    /\ [][RunNext]_vars
    /\ WF_vars(MainSteps)
    /\ WF_vars(PoolSteps)
    /\ WF_vars(Join)
    /\ WorkFair

(***************************************************************************)
(* Properties of SpecRunFair.                                              *)
(***************************************************************************)
\* TaskIter::next or a worker panicked
Failed == plan_pc = "panic" \/ \E t \in DOMAIN pool : pool[t].pc = "panicked"

\* C36: if the planner or a worker fails, the consumer does not wait forever:
\* no end marker is sent, the consumer's receive fails once the results
\* already sent are drained, and main ends with an error.
C36_FailureEndsMain ==
    /\ [](Failed => (EndMarkers = {} /\ main_pc # "ok"))
    /\ [](main_pc = "err" => (Failed /\ channel = <<>> /\ spawn_pc = "panicked"))
    /\ Failed ~> (main_pc = "err")

\* C36 case: main ended with an error after it had received a chunk's result
C36_Witness ==
    /\ main_pc = "err"
    /\ Len(received) >= 1

\* C37: decoding a mapped record whose CIGAR is inconsistent with its sequence
\* (the match run is longer than the read) never indexes past the end of the
\* sequence, quality or observation arrays: append_base returns, and the
\* record has one observation per base of the sequence.
C37_WalksStayInside ==
    (dec_pc # "new" /\ dec_self.cigar[Len(dec_self.cigar)] = "M" /\ CigarLength > ReadLen) =>
        /\ dec_pc = "ok"
        /\ Len(dec_self.bases) = ReadLen

(***************************************************************************)
(* Specification SpecCigarPair: Alignment::cigar_get_next_segment and       *)
(* CigarIterator called over one well-formed CIGAR text, each until it      *)
(* reports the end of the text.                                             *)
(***************************************************************************)
\* The well-formed CIGAR texts: one to MaxOps groups of a digit run of one or
\* two digits and an operator letter
RECURSIVE CigarTexts(_)
CigarTexts(n) ==
    IF n = 0 THEN {<<>>}
    ELSE {run \o <<op>> \o rest :
            run \in {<<"1">>, <<"2">>, <<"1", "2">>},
            op \in {"M", "D", "S"},
            rest \in CigarTexts(n - 1)}

\* A caller of one of the two: its offset, the pairs returned, whether the
\* end of the text was reported, whether the call panicked
CigarFresh == [start |-> 0, yielded |-> <<>>, done |-> FALSE, panic |-> FALSE]

CigarPairInit ==
    /\ PosIdle
    /\ ARGS = Arguments(DefaultBlockSize, DefaultBlockSize, 1)
    /\ align_file = <<>>
    /\ ref_file = <<>>
    /\ PlanIdle
    /\ RunIdle
    /\ WorkIdle
    /\ \E n \in 1..MaxOps : \E c \in CigarTexts(n) : dec_line = <<c>>
    /\ dec_self = AlignmentNew
    /\ dec_pc = "cigars"
    /\ dec_ret = [iter |-> CigarFresh, seg |-> CigarFresh]

\* The caller's state after CigarIterator::next returned r
IterCalled(c, r) ==
    [start |-> r.start,
     yielded |-> IF r.some THEN Append(c.yielded, <<r.len, r.op>>) ELSE c.yielded,
     done |-> ~r.some,
     panic |-> FALSE]

\* The caller's state after cigar_get_next_segment returned r or panicked
SegmentCalled(c, r) ==
    IF r.panic THEN [c EXCEPT !.panic = TRUE]
    ELSE IF r.more
    THEN [c EXCEPT !.start = r.start, !.yielded = Append(@, <<r.len, r.symbol>>)]
    ELSE [c EXCEPT !.done = TRUE]

\* One call of CigarIterator::next
PollCigarIterator ==
    /\ dec_pc = "cigars"
    /\ ~dec_ret.iter.done
    /\ dec_ret' = [dec_ret EXCEPT !.iter =
                       IterCalled(@, CigarIteratorNext(dec_line[1], @.start))]
    /\ UNCHANGED <<dec_line, dec_self, dec_pc, workVars, posVars, inputVars, planVars, runVars>>

\* One call of Alignment::cigar_get_next_segment
PollCigarSegment ==
    /\ dec_pc = "cigars"
    /\ ~dec_ret.seg.done
    /\ ~dec_ret.seg.panic
    /\ dec_ret' = [dec_ret EXCEPT !.seg =
                       SegmentCalled(@, cigar_get_next_segment(dec_line[1], @.start))]
    /\ UNCHANGED <<dec_line, dec_self, dec_pc, workVars, posVars, inputVars, planVars, runVars>>

CigarPairNext == PollCigarIterator \/ PollCigarSegment

SpecCigarPair == CigarPairInit /\ [][CigarPairNext]_vars

(***************************************************************************)
(* Properties of SpecCigarPair.                                            *)
(***************************************************************************)
\* C38: for every well-formed CIGAR text, texts of two or more operators
\* included, cigar_get_next_segment returns the pairs CigarIterator returns,
\* in the same order, and then reports the end of the text.
C38_SegmenterMatchesIterator ==
    dec_pc = "cigars" =>
        /\ ~dec_ret.seg.panic
        /\ \A i \in 1..Len(dec_ret.seg.yielded) :
              i <= Len(dec_ret.iter.yielded) =>
                  dec_ret.seg.yielded[i] = dec_ret.iter.yielded[i]
        /\ (dec_ret.seg.done /\ dec_ret.iter.done) =>
              dec_ret.seg.yielded = dec_ret.iter.yielded

====
